---------------------------- MODULE Spec2Model ----------------------------
(***************************************************************************)
(* Model of the choreography indexer of shieldx-client:                    *)
(*   shieldx_client/choreography/schema.py       (document validation)     *)
(*   shieldx_client/choreography/interpreter.py  (ChoreographyInterpreter) *)
(*   shieldx_client/client.py                    (the *_dict / *_bool      *)
(*                                                helpers it calls)        *)
(* One step of a run is one HTTP round trip (one await of the client); the *)
(* code between two round trips belongs to the step of the earlier one.    *)
(*                                                                         *)
(* Strings whose characters the code inspects or concatenates (alias,      *)
(* bucket_id, key, method, signature strings) are sequences of one-        *)
(* character strings; names that are only compared (trigger and event-type *)
(* names) are plain strings.  Python's None is "~" (YAML's null) for a     *)
(* name and <<"~">> for a character sequence; an absent or empty parameter *)
(* block is the empty mapping <<>> (the code only tests its truthiness).   *)
(***************************************************************************)
EXTENDS Integers, Sequences, FiniteSets, TLC

VARIABLES
    text,          \* the choreography document handed to index_from_text
    svc,           \* the external service: entities and relations
    failures,      \* round trips that have failed so far
    frame,         \* per run: position and locals of _index_entities
    result,        \* per run: what index_from_text returned
    calls,         \* per run: the round trips issued, in order
    svc_at_start,  \* per run: the service as it was when the run began
    arg,           \* the value handed to a function of the schema or the interpreter
    ret            \* what has been made of arg so far

vars == <<text, svc, failures, frame, result, calls, svc_at_start, arg, ret>>

---------------------------------------------------------------------------
(* Bounds *)

MaxRuns == 2
MaxFailures == 1

Runs == 1..MaxRuns

---------------------------------------------------------------------------
(* Python values *)

None == "~"
NoneS == <<"~">>

\* bool(x) of an Optional[str] held as a character sequence
Truthy(s) == s # NoneS /\ s # <<>>

\* bool(x) of an Optional[str] held as a name
TruthyName(n) == n # None /\ n # ""

EmptyDict == <<>>

\* d[k] = v
DictSet(d, k, v) == [x \in DOMAIN d \cup {k} |-> IF x = k THEN v ELSE d[x]]

\* d.get(k): the value, or 0 (None; every id is a positive number)
DictGet(d, k) == IF k \in DOMAIN d THEN d[k] ELSE 0

Range(s) == {s[i] : i \in DOMAIN s}

---------------------------------------------------------------------------
(* schema.py: the document and its validation *)

\* _require_alias_or_bucket_key taking either of bucket_id and key for the pair
RequireAliasOrBucketOrKey(tgt) ==
    LET has_alias == Truthy(tgt.alias)
        has_bucket_key == Truthy(tgt.bucket_id) \/ Truthy(tgt.key)
    IN  has_alias \/ has_bucket_key

\* TargetSpec._require_alias_or_bucket_key
RequireAliasOrBucketKey(tgt) ==
    LET has_alias == Truthy(tgt.alias)
        has_bucket_key == Truthy(tgt.bucket_id) /\ Truthy(tgt.key)
    IN  has_alias \/ has_bucket_key

\* ParametersSpec._at_least_one_block
AtLeastOneBlock(params) ==
    params.init # EmptyDict \/ params.call # EmptyDict

\* RefSpec._require_ref_or_value, for a parameter value that is a RefSpec
RequireRefOrValue(v) ==
    LET effective_ref == IF Truthy(v.ref) THEN v.ref ELSE v.ref_dollar
    IN  ~(effective_ref = NoneS /\ v.value = None)

ValidParamValue(v) == v.tag = "ref" => RequireRefOrValue(v)

ValidBlock(block) == \A k \in DOMAIN block : ValidParamValue(block[k])

ValidTrigger(t) ==
    /\ RequireAliasOrBucketKey(t.rule.target)
    /\ ValidBlock(t.rule.parameters.init)
    /\ ValidBlock(t.rule.parameters.call)
    /\ AtLeastOneBlock(t.rule.parameters)

\* ChoreographySpec._non_empty_triggers
NonEmptyTriggers(triggers) == triggers # <<>>

\* ChoreographySpec.model_validate(raw): raw is the mapping yaml.safe_load
\* produced; has_triggers tells whether it carries the required field
ModelValidate(raw) ==
    /\ raw.has_triggers
    /\ \A i \in DOMAIN raw.triggers : ValidTrigger(raw.triggers[i])
    /\ NonEmptyTriggers(raw.triggers)

ValueError == [type |-> "ValueError", op |-> "validate", status |-> 0]
YAMLError == [type |-> "YAMLError", op |-> "safe_load", status |-> 0]
AttributeError == [type |-> "AttributeError", op |-> "is_err", status |-> 0]
HTTPStatusError(op, status) == [type |-> "HTTPStatusError", op |-> op, status |-> status]

NoSpec == [triggers |-> <<>>, links |-> <<>>]

\* ChoreographyInterpreter._parse_spec
ParseSpec(t) ==
    IF t.kind = "unparseable"
    THEN [is_err |-> TRUE, err |-> YAMLError, spec |-> NoSpec]
    ELSE LET raw == IF t.kind = "empty"
                    THEN [has_triggers |-> FALSE, triggers |-> <<>>, links |-> <<>>]
                    ELSE t.raw
         IN  IF ModelValidate(raw)
             THEN [is_err |-> FALSE, err |-> ValueError,
                   spec |-> [triggers |-> raw.triggers, links |-> raw.links]]
             ELSE [is_err |-> TRUE, err |-> ValueError, spec |-> NoSpec]

---------------------------------------------------------------------------
(* interpreter.py: signature derivation and parameter encoding *)

Dot == "."

HasDot(s) == \E i \in DOMAIN s : s[i] = Dot

\* position of the first "." of s: the split of str.split(".", 1)
FirstDot(s) == CHOOSE i \in DOMAIN s :
                   s[i] = Dot /\ \A j \in DOMAIN s : j < i => s[j] # Dot

\* position of the last "." of s
LastDot(s) == CHOOSE i \in DOMAIN s :
                  s[i] = Dot /\ \A j \in DOMAIN s : j > i => s[j] # Dot

\* s.rsplit(".", 1) for s with a dot
RSplit(s) == <<SubSeq(s, 1, LastDot(s) - 1), SubSeq(s, LastDot(s) + 1, Len(s))>>

AliasPrefix == <<"a", "l", "i", "a", "s", ":">>
PersistedPrefix == <<"p", "e", "r", "s", "i", "s", "t", "e", "d", ":">>

\* _signature_from_target without the dotted-alias branch: the method suffix is lost
SignatureFromTargetNoMethod(tgt) ==
    IF Truthy(tgt.alias)
    THEN [raised |-> FALSE,
          sig |-> [kind |-> "alias", alias |-> tgt.alias],
          s |-> AliasPrefix \o tgt.alias]
    ELSE IF Truthy(tgt.bucket_id) /\ Truthy(tgt.key)
         THEN [raised |-> FALSE,
               sig |-> [kind |-> "persisted", bucket_id |-> tgt.bucket_id, key |-> tgt.key],
               s |-> PersistedPrefix \o tgt.bucket_id \o <<":">> \o tgt.key]
         ELSE [raised |-> TRUE, sig |-> [kind |-> "invalid"], s |-> <<>>]

\* _signature_from_target taking the method field of an alias target for its method
SignatureFromTargetMethodField(tgt) ==
    IF Truthy(tgt.alias) /\ Truthy(tgt.method)
    THEN [raised |-> FALSE,
          sig |-> [kind |-> "alias", alias |-> tgt.alias, method |-> tgt.method],
          s |-> AliasPrefix \o tgt.alias \o <<"#">> \o tgt.method]
    ELSE SignatureFromTargetNoMethod(tgt)

\* _signature_from_target writing the method of a persisted target whether or
\* not it is set
SignatureFromTargetAlwaysMethod(tgt) ==
    IF ~Truthy(tgt.alias) /\ Truthy(tgt.bucket_id) /\ Truthy(tgt.key)
    THEN [raised |-> FALSE,
          sig |-> [kind |-> "persisted", bucket_id |-> tgt.bucket_id,
                   key |-> tgt.key, method |-> tgt.method],
          s |-> PersistedPrefix \o tgt.bucket_id \o <<":">> \o tgt.key
                  \o <<"#">> \o tgt.method]
    ELSE SignatureFromTargetNoMethod(tgt)

\* ChoreographyInterpreter._signature_from_target: (sig, s), or the ValueError
SignatureFromTarget(tgt) ==
    IF Truthy(tgt.alias)
    THEN IF HasDot(tgt.alias)
         THEN LET alias == RSplit(tgt.alias)[1]
                  method == RSplit(tgt.alias)[2]
              IN  [raised |-> FALSE,
                   sig |-> [kind |-> "alias", alias |-> alias \o <<Dot>> \o method,
                            method |-> method],
                   s |-> AliasPrefix \o alias \o <<Dot>> \o method \o <<"#">> \o method]
         ELSE [raised |-> FALSE,
               sig |-> [kind |-> "alias", alias |-> tgt.alias],
               s |-> AliasPrefix \o tgt.alias]
    ELSE IF Truthy(tgt.bucket_id) /\ Truthy(tgt.key)
         THEN [raised |-> FALSE,
               sig |-> IF Truthy(tgt.method)
                       THEN [kind |-> "persisted", bucket_id |-> tgt.bucket_id,
                             key |-> tgt.key, method |-> tgt.method]
                       ELSE [kind |-> "persisted", bucket_id |-> tgt.bucket_id,
                             key |-> tgt.key],
               s |-> PersistedPrefix \o tgt.bucket_id \o <<":">> \o tgt.key
                       \o (IF Truthy(tgt.method) THEN <<"#">> \o tgt.method ELSE <<>>)]
         ELSE [raised |-> TRUE, sig |-> [kind |-> "invalid"], s |-> <<>>]

\* RefSpec.model_dump(by_alias=True), without exclude_none: every field
RefDumpAll(v) ==
    [f \in {"ref", "$ref", "value", "type", "name", "description"} |->
        CASE f = "ref" -> v.ref
          [] f = "$ref" -> v.ref_dollar
          [] f = "value" -> v.value
          [] f = "type" -> v.type
          [] f = "name" -> v.name
          [] OTHER -> v.description]

\* RefSpec.model_dump(exclude_none=True, by_alias=True): the fields that are set
RefDump(v) ==
    LET set == {f \in {"ref", "$ref", "value", "type", "name", "description"} :
                   CASE f = "ref" -> v.ref # NoneS
                     [] f = "$ref" -> v.ref_dollar # NoneS
                     [] f = "value" -> v.value # None
                     [] f = "type" -> v.type # None
                     [] f = "name" -> v.name # None
                     [] OTHER -> v.description # None}
    IN  [f \in set |->
            CASE f = "ref" -> v.ref
              [] f = "$ref" -> v.ref_dollar
              [] f = "value" -> v.value
              [] f = "type" -> v.type
              [] f = "name" -> v.name
              [] OTHER -> v.description]

\* _encode_param_value returning a mapping as it is, None values included
EncodeParamValueKeepNone(v) ==
    IF v.tag = "ref" THEN RefDump(v)
    ELSE IF v.tag = "dict" THEN v.d ELSE [value |-> v.v]

\* _encode_param_value testing for a literal before it tests for a mapping:
\* all that is no RefSpec is wrapped
EncodeParamValueLiteralFirst(v) ==
    IF v.tag = "ref" THEN RefDump(v)
    ELSE IF v.tag = "dict" THEN [value |-> v.d] ELSE [value |-> v.v]

\* ChoreographyInterpreter._encode_param_value
EncodeParamValue(v) ==
    IF v.tag = "ref" THEN RefDump(v)
    ELSE IF v.tag = "dict"
         THEN [k \in {x \in DOMAIN v.d : v.d[x] # None} |-> v.d[k]]
         ELSE [value |-> v.v]

\* ChoreographyInterpreter._encode_param_block
EncodeParamBlock(block) == [name \in DOMAIN block |-> EncodeParamValue(block[name])]

\* _encode_parameters writing both blocks, empty or not
EncodeParametersBothKeys(params) ==
    [k \in {"init", "call"} |->
        IF k = "init" THEN EncodeParamBlock(params.init) ELSE EncodeParamBlock(params.call)]

\* ChoreographyInterpreter._encode_parameters
EncodeParameters(params) ==
    LET init_block == EncodeParamBlock(params.init)
        call_block == EncodeParamBlock(params.call)
        keys == (IF params.init # EmptyDict /\ init_block # EmptyDict
                 THEN {"init"} ELSE {})
                \cup (IF params.call # EmptyDict /\ call_block # EmptyDict
                      THEN {"call"} ELSE {})
    IN  [k \in keys |-> IF k = "init" THEN init_block ELSE call_block]

---------------------------------------------------------------------------
(* The documents index_from_text is given *)

Lit(v) == [tag |-> "lit", v |-> v]

Alias(a) == [alias |-> a, bucket_id |-> NoneS, key |-> NoneS, method |-> NoneS]
Persisted(b, k, m) == [alias |-> NoneS, bucket_id |-> b, key |-> k, method |-> m]
NoTarget == [alias |-> NoneS, bucket_id |-> <<"B">>, key |-> NoneS, method |-> NoneS]

CallX(n) == [init |-> EmptyDict, call |-> [k \in {"x"} |-> Lit(n)]]
InitY(n) == [init |-> [k \in {"y"} |-> Lit(n)], call |-> EmptyDict]
NoParams == [init |-> EmptyDict, call |-> EmptyDict]

Trig(name, depends_on, target, parameters, event_types) ==
    [name |-> name, depends_on |-> depends_on,
     rule |-> [target |-> target, parameters |-> parameters],
     event_types |-> event_types]

Link(from, to) == [from_trigger |-> from, to_trigger |-> to, order |-> 1, condition |-> None]

\* a legacy link with its order and condition set
LinkWith(from, to, order, condition) ==
    [from_trigger |-> from, to_trigger |-> to, order |-> order, condition |-> condition]

Doc(triggers, links) ==
    [kind |-> "mapping",
     raw |-> [has_triggers |-> TRUE, triggers |-> triggers, links |-> links]]

SvcRun == <<"s", "v", "c", ".", "r", "u", "n">>
PQ == <<"p", ".", "q">>
Job == <<"j", "o", "b">>
BK == Persisted(<<"B">>, <<"K">>, NoneS)
BKm == Persisted(<<"B">>, <<"K">>, <<"m">>)

\* the scenario of one trigger with a dotted alias and no event types
DocScenario == Doc(<<Trig("t1", None, Alias(SvcRun), CallX(1), <<>>)>>, <<>>)

\* B depends on A; both triggers invoke the same target, with different parameters
DocAB == Doc(<<Trig("A", None, Alias(PQ), CallX(1), <<>>),
               Trig("B", "A", Alias(PQ), CallX(2), <<>>)>>, <<>>)

\* the dependent trigger comes first; a persisted target and a plain alias
DocBA == Doc(<<Trig("B", "A", BKm, InitY(1), <<>>),
               Trig("A", None, Alias(Job), CallX(1), <<>>)>>, <<>>)

\* shared and repeated event types; the same edge as depends_on and as a legacy link
DocLinks == Doc(<<Trig("A", None, BK, CallX(1), <<"e1", "e2">>),
                  Trig("B", "A", BKm, CallX(1), <<"e1", "e1">>)>>,
                <<Link("A", "B")>>)

\* depends_on and a legacy link that name a trigger the document does not hold,
\* and a legacy link between two triggers it holds
DocDangling == Doc(<<Trig("A", "Z", Alias(Job), CallX(1), <<"A">>),
                     Trig("B", None, BK, InitY(1), <<>>)>>,
                   <<Link("A", "Z"), Link("B", "A")>>)

\* two triggers with the same name
DocSameName == Doc(<<Trig("A", None, Alias(Job), CallX(1), <<>>),
                     Trig("A", "A", Alias(PQ), CallX(1), <<"e1">>)>>, <<>>)

\* two legacy links, both ways, the second with the lower order and the first
\* with a condition; the triggers share an event type and a rule
DocOrdered == Doc(<<Trig("A", None, Alias(Job), CallX(1), <<>>),
                    Trig("B", None, Alias(Job), CallX(1), <<"A">>)>>,
                  <<LinkWith("B", "A", 2, "when"), LinkWith("A", "B", 1, None)>>)

\* two persisted targets, bucket "B" with key "K:L" and bucket "B:K" with key "L"
DocColon == Doc(<<Trig("t1", None, Persisted(<<"B">>, <<"K", ":", "L">>, NoneS), CallX(1), <<>>),
                  Trig("t2", None, Persisted(<<"B", ":", "K">>, <<"L">>, NoneS), CallX(1),
                       <<"t1">>)>>, <<>>)

ValidDocs == {DocScenario, DocAB, DocBA, DocLinks, DocDangling, DocSameName, DocOrdered,
              DocColon}

InvalidDocs ==
    { [kind |-> "unparseable"],
      [kind |-> "empty"],
      [kind |-> "mapping",
       raw |-> [has_triggers |-> FALSE, triggers |-> <<>>, links |-> <<>>]],
      Doc(<<>>, <<>>),
      Doc(<<Trig("t1", None, Alias(SvcRun), CallX(1), <<>>),
            Trig("t2", None, NoTarget, CallX(1), <<>>)>>, <<>>),
      Doc(<<Trig("t1", None, Alias(SvcRun), NoParams, <<>>)>>, <<>>) }

Docs == ValidDocs \cup InvalidDocs

---------------------------------------------------------------------------
(* client.py: results, and the helpers the interpreter calls *)

Ok(v) == [kind |-> "Ok", val |-> v, err |-> AttributeError]
Err(e) == [kind |-> "Err", val |-> 0, err |-> e]
\* a helper that fell off its end returned Python's None, which is no Result
BareNone == [kind |-> "None", val |-> 0, err |-> AttributeError]

\* the first of a set of positions of a listing, or 0 (None) when there is none
First(hits) == IF hits = {} THEN 0 ELSE CHOOSE i \in hits : \A j \in hits : i <= j

\* find_event_type_by_name_dict comparing dto.event_type_id, not dto.event_type,
\* with the name: no listed event type matches
FindEventTypeByIdDict(res, event_type) ==
    IF res.kind = "Ok" THEN Ok(First({})) ELSE BareNone

\* ShieldXClient.find_event_type_by_name_dict, given what list_event_types returned
FindEventTypeByNameDict(res, event_type) ==
    IF res.kind = "Ok"
    THEN Ok(First({i \in DOMAIN res.val : res.val[i] = event_type}))
    ELSE BareNone

\* find_rule_by_target_dict comparing the stored target with the signature
\* string, which no stored target equals
FindRuleByStringDict(res, target) ==
    IF res.kind = "Err" THEN Err(res.err) ELSE Ok(First({}))

\* ShieldXClient.find_rule_by_target_dict, given what list_rules returned
FindRuleByTargetDict(res, target) ==
    IF res.kind = "Err"
    THEN Err(res.err)
    ELSE Ok(First({i \in DOMAIN res.val : res.val[i].target = target}))

NotFound == 404
ServerError == 500

\* find_trigger_by_name_dict dropping the trigger it was given: every name is
\* reported as not found
FindTriggerByNameDictNotFound(res) ==
    IF res.kind = "Ok" \/ (res.err.type = "HTTPStatusError" /\ res.err.status = 404)
    THEN Ok(0)
    ELSE Err(res.err)

\* find_trigger_by_name_dict taking every failed lookup for "no such trigger"
FindTriggerByNameDictAnyError(res) ==
    IF res.kind = "Ok" THEN Ok(res.val) ELSE Ok(0)

\* ShieldXClient.find_trigger_by_name_dict, given what get_trigger_by_name returned
FindTriggerByNameDict(res) ==
    IF res.kind = "Ok"
    THEN Ok(res.val)
    ELSE IF res.err.type = "HTTPStatusError" /\ res.err.status = NotFound
         THEN Ok(0)
         ELSE Err(res.err)

\* ShieldXClient.create_event_type_dict / create_rule_dict / create_trigger_dict,
\* given what the POST returned
CreateDict(res) == IF res.kind = "Err" THEN Err(res.err) ELSE Ok(res.val)

\* is_*_bool that never finds the id in the listing
IsBoundBoolNever(res, id) ==
    IF res.kind = "Err" THEN Err(res.err) ELSE Ok(FALSE)

\* ShieldXClient.is_trigger_bound_to_event_type_bool / is_rule_bound_to_trigger_bool /
\* is_trigger_linked_to_trigger_bool, given what the listing GET returned
IsBoundBool(res, id) ==
    IF res.kind = "Err" THEN Err(res.err) ELSE Ok(id \in Range(res.val))

\* ShieldXClient.link_trigger_to_event_type / link_rule_to_trigger / link_trigger_child:
\* the Result of _post is awaited and dropped
LinkResult(post_res) == Ok(TRUE)

\* ShieldXClient.bind_event_type_to_trigger_dict / bind_rule_to_trigger_dict /
\* bind_trigger_to_trigger_dict
BindDict(post_res) ==
    LET res == LinkResult(post_res)
    IN  IF res.kind = "Err" THEN Err(res.err) ELSE Ok(TRUE)

---------------------------------------------------------------------------
(* The service, as the client's requests see and change it.  An entity's id *)
(* is its position in the listing of its kind.                              *)

EmptySvc ==
    [event_types |-> <<>>, rules |-> <<>>, triggers |-> <<>>,
     et_trig |-> <<>>, trig_rule |-> <<>>, trig_trig |-> <<>>]

\* GET /triggers/{name}
GetTriggerByName(s, name) ==
    LET id == First({i \in DOMAIN s.triggers : s.triggers[i].name = name})
    IN  IF id # 0 THEN Ok(id) ELSE Err(HTTPStatusError("get_trigger_by_name", NotFound))

\* GET /event-types/{id}/triggers, /triggers/{id}/rules, /triggers/{id}/children:
\* the second ids of the pairs of rel whose first id is id
ListFor(rel, id) ==
    LET Sel[i \in 0..Len(rel)] ==
            IF i = 0 THEN <<>>
            ELSE IF rel[i][1] = id THEN Append(Sel[i - 1], rel[i][2]) ELSE Sel[i - 1]
    IN  Sel[Len(rel)]

\* POST /event-types on a service that keeps event-type names unique: a name
\* it holds is not added again
PostEventTypeUnique(s, name) ==
    IF name \in Range(s.event_types) THEN s
    ELSE [s EXCEPT !.event_types = Append(@, name)]
\* POST /event-types
PostEventType(s, name) == [s EXCEPT !.event_types = Append(@, name)]
\* POST /rules
PostRule(s, target, parameters) ==
    [s EXCEPT !.rules = Append(@, [target |-> target, parameters |-> parameters])]
\* POST /triggers/
PostTrigger(s, payload) == [s EXCEPT !.triggers = Append(@, payload)]
\* PUT /event-types/{event_type_id}/triggers (replace_triggers_for_event_type)
\* with the one trigger: the event type's other relations are dropped
PutEventTypeTriggers(s, event_type_id, trigger_id) ==
    LET Kept[i \in 0..Len(s.et_trig)] ==
            IF i = 0 THEN <<>>
            ELSE IF s.et_trig[i][1] = event_type_id THEN Kept[i - 1]
                 ELSE Append(Kept[i - 1], s.et_trig[i])
    IN  [s EXCEPT !.et_trig = Append(Kept[Len(s.et_trig)], <<event_type_id, trigger_id>>)]

\* POST /event-types/{event_type_id}/triggers/{trigger_id}
PostEventTypeTrigger(s, event_type_id, trigger_id) ==
    [s EXCEPT !.et_trig = Append(@, <<event_type_id, trigger_id>>)]
\* POST /triggers/{trigger_id}/rules/{rule_id}
PostTriggerRule(s, trigger_id, rule_id) ==
    [s EXCEPT !.trig_rule = Append(@, <<trigger_id, rule_id>>)]
\* POST /triggers/{parent_id}/children/{child_id}
PostTriggerChild(s, parent_id, child_id) ==
    [s EXCEPT !.trig_trig = Append(@, <<parent_id, child_id>>)]

---------------------------------------------------------------------------
(* interpreter.py: one run of index_from_text *)

SpecOf == ParseSpec(text).spec

\* the trigger's own name taken as an event type whatever the list holds
EtNamesWithOwn(trig) == trig.event_types \o <<trig.name>>

\* trig.event_types or [trig.name]
EtNames(trig) == IF trig.event_types # <<>> THEN trig.event_types ELSE <<trig.name>>

NoSummary == [event_types |-> EmptyDict, triggers |-> EmptyDict, rules |-> EmptyDict,
              links_count |-> 0]
NoResult == [tag |-> "none", summary |-> NoSummary, error |-> AttributeError]
RunOk(summary) == [tag |-> "Ok", summary |-> summary, error |-> AttributeError]
RunErr(e) == [tag |-> "Err", summary |-> NoSummary, error |-> e]

IdleFrame ==
    [pc |-> "idle", i |-> 0, j |-> 0,
     event_type_ids |-> EmptyDict, trigger_ids |-> EmptyDict, rule_ids |-> EmptyDict,
     et_ids_for_this_trigger |-> <<>>, rule_id |-> 0, trig_id |-> 0]
DoneFrame == [IdleFrame EXCEPT !.pc = "done"]

\* the run goes on from frame f / the run returns res
Continue(f) == [frame |-> f, result |-> NoResult]
Return(res) == [frame |-> DoneFrame, result |-> res]

\* the summary counting only the edges whose triggers the run resolved
SummaryResolvedLinks(f) ==
    LET known == DOMAIN f.trigger_ids
        total_links ==
            Cardinality({k \in DOMAIN SpecOf.triggers :
                             SpecOf.triggers[k].depends_on \in known})
            + Cardinality({k \in DOMAIN SpecOf.links :
                               /\ SpecOf.links[k].from_trigger \in known
                               /\ SpecOf.links[k].to_trigger \in known})
    IN  RunOk([event_types |-> f.event_type_ids, triggers |-> f.trigger_ids,
               rules |-> f.rule_ids, links_count |-> total_links])

\* _index_entities, the summary
Summary(f) ==
    LET total_links ==
            Cardinality({k \in DOMAIN SpecOf.triggers :
                             TruthyName(SpecOf.triggers[k].depends_on)})
            + Len(SpecOf.links)
    IN  RunOk([event_types |-> f.event_type_ids, triggers |-> f.trigger_ids,
               rules |-> f.rule_ids, links_count |-> total_links])

\* _index_entities 6b testing only the source of a link: a link whose target
\* is unknown is bound to whatever trigger_ids.get returned
LinksPhaseFromOnly(f, k) ==
    LET todo == {n \in k..Len(SpecOf.links) :
                     DictGet(f.trigger_ids, SpecOf.links[n].from_trigger) # 0}
    IN  IF todo = {} THEN Return(Summary(f))
        ELSE Continue([f EXCEPT !.pc = "is_linked_link", !.i = First(todo)])

\* _index_entities 6b: the legacy links from the k-th on; the first whose two
\* ends are known is bound next, and with none left the run returns its summary
LinksPhase(f, k) ==
    LET todo == {n \in k..Len(SpecOf.links) :
                     /\ DictGet(f.trigger_ids, SpecOf.links[n].from_trigger) # 0
                     /\ DictGet(f.trigger_ids, SpecOf.links[n].to_trigger) # 0}
    IN  IF todo = {} THEN Return(Summary(f))
        ELSE Continue([f EXCEPT !.pc = "is_linked_link", !.i = First(todo)])

\* _index_entities 6a without the test of parent and child: every trigger with
\* a depends_on is bound, to whatever trigger_ids.get returned
DependsOnPhaseUnresolved(f, k) ==
    LET todo == {n \in k..Len(SpecOf.triggers) : TruthyName(SpecOf.triggers[n].depends_on)}
    IN  IF todo = {} THEN LinksPhase(f, 1)
        ELSE Continue([f EXCEPT !.pc = "is_linked_depends_on", !.i = First(todo)])

\* _index_entities 6a: the triggers from the k-th on; the first with a depends_on
\* whose parent and child are known is bound next, then the legacy links
DependsOnPhase(f, k) ==
    LET todo == {n \in k..Len(SpecOf.triggers) :
                     /\ TruthyName(SpecOf.triggers[n].depends_on)
                     /\ DictGet(f.trigger_ids, SpecOf.triggers[n].depends_on) # 0
                     /\ DictGet(f.trigger_ids, SpecOf.triggers[n].name) # 0}
    IN  IF todo = {} THEN LinksPhase(f, 1)
        ELSE Continue([f EXCEPT !.pc = "is_linked_depends_on", !.i = First(todo)])

\* _index_entities 5 with the chain steps 6a and 6b inside the loop over the
\* triggers: they run as soon as one trigger's event types are bound
AfterBindEventChainsInside(f) ==
    IF f.j < Len(f.et_ids_for_this_trigger)
    THEN Continue([f EXCEPT !.j = f.j + 1, !.pc = "is_trigger_bound"])
    ELSE DependsOnPhase(f, 1)

\* _index_entities 5, after the j-th event type of the i-th trigger is bound
AfterBindEvent(f) ==
    IF f.j < Len(f.et_ids_for_this_trigger)
    THEN Continue([f EXCEPT !.j = f.j + 1, !.pc = "is_trigger_bound"])
    ELSE IF f.i < Len(SpecOf.triggers)
         THEN Continue([f EXCEPT !.i = f.i + 1, !.j = 1, !.et_ids_for_this_trigger = <<>>,
                                 !.pc = "find_event_type"])
         ELSE DependsOnPhase(f, 1)

\* _index_entities 4, after the trigger and its rule are bound
AfterBindRule(f) == Continue([f EXCEPT !.j = 1, !.pc = "is_trigger_bound"])

\* _index_entities 3, with the id of the resolved trigger
AfterTrigger(f, trig_id) ==
    Continue([f EXCEPT !.trig_id = trig_id,
                       !.trigger_ids = DictSet(@, SpecOf.triggers[f.i].name, trig_id),
                       !.pc = "is_rule_bound"])

\* _index_entities 2 recording the id of the first rule only
AfterRuleFirstOnly(f, rule_id) ==
    LET signature_str == SignatureFromTarget(SpecOf.triggers[f.i].rule.target).s
    IN  Continue([f EXCEPT !.rule_id = rule_id,
                           !.rule_ids = IF @ = EmptyDict
                                        THEN DictSet(@, signature_str, rule_id) ELSE @,
                           !.pc = "find_trigger"])

\* _index_entities 2, with the id of the resolved rule
AfterRule(f, rule_id) ==
    LET signature_str == SignatureFromTarget(SpecOf.triggers[f.i].rule.target).s
    IN  Continue([f EXCEPT !.rule_id = rule_id,
                           !.rule_ids = DictSet(@, signature_str, rule_id),
                           !.pc = "find_trigger"])

\* _index_entities 1 leaving the loop over et_names after its first name: the
\* rule is looked up with the trigger's other event types unresolved
AfterEventTypeFirstOnly(f, et_id) ==
    LET trig == SpecOf.triggers[f.i]
        g == [f EXCEPT !.event_type_ids = DictSet(@, EtNames(trig)[f.j], et_id),
                       !.et_ids_for_this_trigger = Append(@, et_id)]
    IN  IF SignatureFromTarget(trig.rule.target).raised
        THEN Return(RunErr(ValueError))
        ELSE Continue([g EXCEPT !.pc = "find_rule"])

\* _index_entities 1, with the id of the j-th event type of the i-th trigger;
\* after the last one the signature is derived and the rule is looked up
AfterEventType(f, et_id) ==
    LET trig == SpecOf.triggers[f.i]
        et_names == EtNames(trig)
        g == [f EXCEPT !.event_type_ids = DictSet(@, et_names[f.j], et_id),
                       !.et_ids_for_this_trigger = Append(@, et_id)]
    IN  IF f.j < Len(et_names)
        THEN Continue([g EXCEPT !.j = f.j + 1, !.pc = "find_event_type"])
        ELSE IF SignatureFromTarget(trig.rule.target).raised
             THEN Return(RunErr(ValueError))
             ELSE Continue([g EXCEPT !.pc = "find_rule"])

\* _get_or_create_event_type / _get_or_create_trigger / _get_or_create_rule, from
\* the lookup's answer: Err(e), Ok(id) of the entity found, or Ok(0) to create it
GetOrCreateFound(found_res) ==
    IF found_res.kind = "None" THEN Err(AttributeError)
    ELSE IF found_res.kind = "Err" THEN Err(found_res.err)
    ELSE Ok(found_res.val)

\* ... and from the create call's answer
GetOrCreateCreated(created_res) ==
    IF created_res.kind = "Err" THEN Err(created_res.err) ELSE Ok(created_res.val)

\* _bind_rules_trigger / _bind_event_trigger / _bind_triggers_triggers, from the
\* is_*_bool answer: Err(e), Ok(TRUE) when bound, Ok(FALSE) to link
BindBound(bound_res) ==
    IF bound_res.kind = "Err" THEN Err(bound_res.err) ELSE Ok(bound_res.val)

\* ... and from the bind_*_dict answer
BindLinked(link_res) ==
    IF link_res.kind = "Err" THEN Err(link_res.err) ELSE Ok(TRUE)

---------------------------------------------------------------------------
(* The steps: one HTTP round trip each *)

\* a round trip of run r is issued and answered; it fails when http_ok is FALSE
RoundTrip(r, op, args, http_ok) ==
    /\ http_ok \/ failures < MaxFailures
    /\ calls' = [calls EXCEPT ![r] = Append(@, [op |-> op, args |-> args, ok |-> http_ok])]
    /\ failures' = IF http_ok THEN failures ELSE failures + 1

\* what _get / _post returned for the round trip
Http(http_ok, op, val) ==
    IF http_ok THEN Ok(val) ELSE Err(HTTPStatusError(op, ServerError))

Goto(r, out) ==
    /\ frame' = [frame EXCEPT ![r] = out.frame]
    /\ result' = [result EXCEPT ![r] = out.result]

\* index_from_text is called: the document is parsed, and a valid one is run
Begin(r) ==
    /\ frame[r].pc = "idle"
    /\ svc_at_start' = [svc_at_start EXCEPT ![r] = svc]
    /\ Goto(r, IF ParseSpec(text).is_err
               THEN Return(RunErr(ParseSpec(text).err))
               ELSE Continue([IdleFrame EXCEPT !.pc = "find_event_type", !.i = 1, !.j = 1]))
    /\ UNCHANGED <<arg, ret, text, svc, failures, calls>>

\* the host calls index_from_text again only after the previous call returned
Start(r) ==
    /\ \A q \in Runs : q < r => frame[q].pc = "done"
    /\ Begin(r)

\* _get_or_create_event_type: find_event_type_by_name_dict
FindEventType(r) ==
    /\ frame[r].pc = "find_event_type"
    /\ \E http_ok \in BOOLEAN :
        LET f == frame[r]
            et_name == EtNames(SpecOf.triggers[f.i])[f.j]
            listed == Http(http_ok, "list_event_types", svc.event_types)
            found == GetOrCreateFound(FindEventTypeByNameDict(listed, et_name))
        IN  /\ RoundTrip(r, "list_event_types", <<>>, http_ok)
            /\ Goto(r, IF found.kind = "Err" THEN Return(RunErr(found.err))
                       ELSE IF found.val # 0 THEN AfterEventType(f, found.val)
                       ELSE Continue([f EXCEPT !.pc = "create_event_type"]))
    /\ UNCHANGED <<arg, ret, text, svc, svc_at_start>>

\* _get_or_create_event_type: create_event_type_dict
CreateEventType(r) ==
    /\ frame[r].pc = "create_event_type"
    /\ \E http_ok \in BOOLEAN :
        LET f == frame[r]
            et_name == EtNames(SpecOf.triggers[f.i])[f.j]
            posted == Http(http_ok, "create_event_type", Len(svc.event_types) + 1)
            created == GetOrCreateCreated(CreateDict(posted))
        IN  /\ RoundTrip(r, "create_event_type", <<et_name>>, http_ok)
            /\ svc' = IF http_ok THEN PostEventType(svc, et_name) ELSE svc
            /\ Goto(r, IF created.kind = "Err" THEN Return(RunErr(created.err))
                       ELSE AfterEventType(f, created.val))
    /\ UNCHANGED <<arg, ret, text, svc_at_start>>

\* _get_or_create_rule writing the parameters of the document to the rule it
\* found
FindRuleUpdating(r) ==
    /\ frame[r].pc = "find_rule"
    /\ \E http_ok \in BOOLEAN :
        LET f == frame[r]
            rule == SpecOf.triggers[f.i].rule
            signature_dict == SignatureFromTarget(rule.target).sig
            listed == Http(http_ok, "list_rules", svc.rules)
            found == GetOrCreateFound(FindRuleByTargetDict(listed, signature_dict))
        IN  /\ RoundTrip(r, "list_rules", <<>>, http_ok)
            /\ svc' = IF found.kind = "Ok" /\ found.val # 0
                      THEN [svc EXCEPT !.rules[found.val].parameters =
                                           EncodeParameters(rule.parameters)]
                      ELSE svc
            /\ Goto(r, IF found.kind = "Err" THEN Return(RunErr(found.err))
                       ELSE IF found.val # 0 THEN AfterRule(f, found.val)
                       ELSE Continue([f EXCEPT !.pc = "create_rule"]))
    /\ UNCHANGED <<arg, ret, text, svc_at_start>>

\* _get_or_create_rule: find_rule_by_target_dict
FindRule(r) ==
    /\ frame[r].pc = "find_rule"
    /\ \E http_ok \in BOOLEAN :
        LET f == frame[r]
            signature_dict == SignatureFromTarget(SpecOf.triggers[f.i].rule.target).sig
            listed == Http(http_ok, "list_rules", svc.rules)
            found == GetOrCreateFound(FindRuleByTargetDict(listed, signature_dict))
        IN  /\ RoundTrip(r, "list_rules", <<>>, http_ok)
            /\ Goto(r, IF found.kind = "Err" THEN Return(RunErr(found.err))
                       ELSE IF found.val # 0 THEN AfterRule(f, found.val)
                       ELSE Continue([f EXCEPT !.pc = "create_rule"]))
    /\ UNCHANGED <<arg, ret, text, svc, svc_at_start>>

\* _get_or_create_rule: create_rule_dict
CreateRule(r) ==
    /\ frame[r].pc = "create_rule"
    /\ \E http_ok \in BOOLEAN :
        LET f == frame[r]
            rule == SpecOf.triggers[f.i].rule
            signature_dict == SignatureFromTarget(rule.target).sig
            params_schema == EncodeParameters(rule.parameters)
            posted == Http(http_ok, "create_rule", Len(svc.rules) + 1)
            created == GetOrCreateCreated(CreateDict(posted))
        IN  /\ RoundTrip(r, "create_rule", <<signature_dict, params_schema>>, http_ok)
            /\ svc' = IF http_ok THEN PostRule(svc, signature_dict, params_schema) ELSE svc
            /\ Goto(r, IF created.kind = "Err" THEN Return(RunErr(created.err))
                       ELSE AfterRule(f, created.val))
    /\ UNCHANGED <<arg, ret, text, svc_at_start>>

\* _get_or_create_trigger looking the trigger up again when the lookup failed
FindTriggerRetrying(r) ==
    /\ frame[r].pc = "find_trigger"
    /\ \E http_ok \in BOOLEAN :
        LET f == frame[r]
            name == SpecOf.triggers[f.i].name
            got == IF http_ok THEN GetTriggerByName(svc, name)
                   ELSE Err(HTTPStatusError("get_trigger_by_name", ServerError))
            found == GetOrCreateFound(FindTriggerByNameDict(got))
        IN  /\ RoundTrip(r, "get_trigger_by_name", <<name>>, http_ok)
            /\ Goto(r, IF found.kind = "Err" THEN Continue(f)
                       ELSE IF found.val # 0 THEN AfterTrigger(f, found.val)
                       ELSE Continue([f EXCEPT !.pc = "create_trigger"]))
    /\ UNCHANGED <<arg, ret, text, svc, svc_at_start>>

\* _get_or_create_trigger: find_trigger_by_name_dict.  The service answers 404
\* for a name it does not hold; any other failure is a failed round trip
FindTrigger(r) ==
    /\ frame[r].pc = "find_trigger"
    /\ \E http_ok \in BOOLEAN :
        LET f == frame[r]
            name == SpecOf.triggers[f.i].name
            got == IF http_ok THEN GetTriggerByName(svc, name)
                   ELSE Err(HTTPStatusError("get_trigger_by_name", ServerError))
            found == GetOrCreateFound(FindTriggerByNameDict(got))
        IN  /\ RoundTrip(r, "get_trigger_by_name", <<name>>, http_ok)
            /\ Goto(r, IF found.kind = "Err" THEN Return(RunErr(found.err))
                       ELSE IF found.val # 0 THEN AfterTrigger(f, found.val)
                       ELSE Continue([f EXCEPT !.pc = "create_trigger"]))
    /\ UNCHANGED <<arg, ret, text, svc, svc_at_start>>

\* _get_or_create_trigger: create_trigger_dict
CreateTrigger(r) ==
    /\ frame[r].pc = "create_trigger"
    /\ \E http_ok \in BOOLEAN :
        LET f == frame[r]
            trig == SpecOf.triggers[f.i]
            payload == [name |-> trig.name, depends_on |-> trig.depends_on]
            posted == Http(http_ok, "create_trigger", Len(svc.triggers) + 1)
            created == GetOrCreateCreated(CreateDict(posted))
        IN  /\ RoundTrip(r, "create_trigger", <<trig.name, trig.depends_on>>, http_ok)
            /\ svc' = IF http_ok THEN PostTrigger(svc, payload) ELSE svc
            /\ Goto(r, IF created.kind = "Err" THEN Return(RunErr(created.err))
                       ELSE AfterTrigger(f, created.val))
    /\ UNCHANGED <<arg, ret, text, svc_at_start>>

\* _bind_rules_trigger: is_rule_bound_to_trigger_bool
IsRuleBound(r) ==
    /\ frame[r].pc = "is_rule_bound"
    /\ \E http_ok \in BOOLEAN :
        LET f == frame[r]
            listed == Http(http_ok, "list_rules_for_trigger", ListFor(svc.trig_rule, f.trig_id))
            bound == BindBound(IsBoundBool(listed, f.rule_id))
        IN  /\ RoundTrip(r, "list_rules_for_trigger", <<f.trig_id, f.rule_id>>, http_ok)
            /\ Goto(r, IF bound.kind = "Err" THEN Return(RunErr(bound.err))
                       ELSE IF bound.val THEN AfterBindRule(f)
                       ELSE Continue([f EXCEPT !.pc = "bind_rule"]))
    /\ UNCHANGED <<arg, ret, text, svc, svc_at_start>>

\* _bind_rules_trigger: bind_rule_to_trigger_dict
BindRule(r) ==
    /\ frame[r].pc = "bind_rule"
    /\ \E http_ok \in BOOLEAN :
        LET f == frame[r]
            posted == Http(http_ok, "link_rule_to_trigger", 0)
            linked == BindLinked(BindDict(posted))
        IN  /\ RoundTrip(r, "link_rule_to_trigger", <<f.trig_id, f.rule_id>>, http_ok)
            /\ svc' = IF http_ok THEN PostTriggerRule(svc, f.trig_id, f.rule_id) ELSE svc
            /\ Goto(r, IF linked.kind = "Err" THEN Return(RunErr(linked.err))
                       ELSE AfterBindRule(f))
    /\ UNCHANGED <<arg, ret, text, svc_at_start>>

\* _bind_event_trigger: is_trigger_bound_to_event_type_bool
IsTriggerBound(r) ==
    /\ frame[r].pc = "is_trigger_bound"
    /\ \E http_ok \in BOOLEAN :
        LET f == frame[r]
            et_id == f.et_ids_for_this_trigger[f.j]
            listed == Http(http_ok, "list_triggers_for_event_type", ListFor(svc.et_trig, et_id))
            bound == BindBound(IsBoundBool(listed, f.trig_id))
        IN  /\ RoundTrip(r, "list_triggers_for_event_type", <<et_id, f.trig_id>>, http_ok)
            /\ Goto(r, IF bound.kind = "Err" THEN Return(RunErr(bound.err))
                       ELSE IF bound.val THEN AfterBindEvent(f)
                       ELSE Continue([f EXCEPT !.pc = "bind_event_type"]))
    /\ UNCHANGED <<arg, ret, text, svc, svc_at_start>>

\* _bind_event_trigger: bind_event_type_to_trigger_dict
BindEventType(r) ==
    /\ frame[r].pc = "bind_event_type"
    /\ \E http_ok \in BOOLEAN :
        LET f == frame[r]
            et_id == f.et_ids_for_this_trigger[f.j]
            posted == Http(http_ok, "link_trigger_to_event_type", 0)
            linked == BindLinked(BindDict(posted))
        IN  /\ RoundTrip(r, "link_trigger_to_event_type", <<et_id, f.trig_id>>, http_ok)
            /\ svc' = IF http_ok THEN PostEventTypeTrigger(svc, et_id, f.trig_id) ELSE svc
            /\ Goto(r, IF linked.kind = "Err" THEN Return(RunErr(linked.err))
                       ELSE AfterBindEvent(f))
    /\ UNCHANGED <<arg, ret, text, svc_at_start>>

\* the chain edge with the dependent trigger as parent and its dependency as child
ChainEdgeReversed(f) ==
    IF f.pc \in {"is_linked_depends_on", "bind_depends_on"}
    THEN <<DictGet(f.trigger_ids, SpecOf.triggers[f.i].name),
           DictGet(f.trigger_ids, SpecOf.triggers[f.i].depends_on)>>
    ELSE <<DictGet(f.trigger_ids, SpecOf.links[f.i].to_trigger),
           DictGet(f.trigger_ids, SpecOf.links[f.i].from_trigger)>>

\* the parent and child ids of the chain edge the run is binding
ChainEdge(f) ==
    IF f.pc \in {"is_linked_depends_on", "bind_depends_on"}
    THEN <<DictGet(f.trigger_ids, SpecOf.triggers[f.i].depends_on),
           DictGet(f.trigger_ids, SpecOf.triggers[f.i].name)>>
    ELSE <<DictGet(f.trigger_ids, SpecOf.links[f.i].from_trigger),
           DictGet(f.trigger_ids, SpecOf.links[f.i].to_trigger)>>

\* the rest of _index_entities after a chain edge is bound
AfterBindChain(f) ==
    IF f.pc \in {"is_linked_depends_on", "bind_depends_on"}
    THEN DependsOnPhase(f, f.i + 1)
    ELSE LinksPhase(f, f.i + 1)

\* _bind_triggers_triggers: is_trigger_linked_to_trigger_bool
IsTriggerLinked(r) ==
    /\ frame[r].pc \in {"is_linked_depends_on", "is_linked_link"}
    /\ \E http_ok \in BOOLEAN :
        LET f == frame[r]
            src_trigger_id == ChainEdge(f)[1]
            dst_trigger_id == ChainEdge(f)[2]
            listed == Http(http_ok, "list_trigger_children",
                           ListFor(svc.trig_trig, src_trigger_id))
            bound == BindBound(IsBoundBool(listed, dst_trigger_id))
        IN  /\ RoundTrip(r, "list_trigger_children", <<src_trigger_id, dst_trigger_id>>, http_ok)
            /\ Goto(r, IF bound.kind = "Err" THEN Return(RunErr(bound.err))
                       ELSE IF bound.val THEN AfterBindChain(f)
                       ELSE Continue([f EXCEPT !.pc = IF f.pc = "is_linked_depends_on"
                                                      THEN "bind_depends_on"
                                                      ELSE "bind_link"]))
    /\ UNCHANGED <<arg, ret, text, svc, svc_at_start>>

\* _bind_triggers_triggers: bind_trigger_to_trigger_dict
BindTriggerTrigger(r) ==
    /\ frame[r].pc \in {"bind_depends_on", "bind_link"}
    /\ \E http_ok \in BOOLEAN :
        LET f == frame[r]
            src_trigger_id == ChainEdge(f)[1]
            dst_trigger_id == ChainEdge(f)[2]
            posted == Http(http_ok, "link_trigger_child", 0)
            linked == BindLinked(BindDict(posted))
        IN  /\ RoundTrip(r, "link_trigger_child", <<src_trigger_id, dst_trigger_id>>, http_ok)
            /\ svc' = IF http_ok THEN PostTriggerChild(svc, src_trigger_id, dst_trigger_id)
                      ELSE svc
            /\ Goto(r, IF linked.kind = "Err" THEN Return(RunErr(linked.err))
                       ELSE AfterBindChain(f))
    /\ UNCHANGED <<arg, ret, text, svc_at_start>>

---------------------------------------------------------------------------
(* The specification: the host runs one document, MaxRuns times, one run   *)
(* after the other, against a service that starts empty.                   *)

Init ==
    /\ text \in Docs
    /\ svc = EmptySvc
    /\ failures = 0
    /\ frame = [r \in Runs |-> IdleFrame]
    /\ result = [r \in Runs |-> NoResult]
    /\ calls = [r \in Runs |-> <<>>]
    /\ svc_at_start = [r \in Runs |-> EmptySvc]
    /\ arg = <<>>
    /\ ret = <<>>

Next ==
    \E r \in Runs :
        \/ Start(r)
        \/ FindEventType(r)
        \/ CreateEventType(r)
        \/ FindRule(r)
        \/ CreateRule(r)
        \/ FindTrigger(r)
        \/ CreateTrigger(r)
        \/ IsRuleBound(r)
        \/ BindRule(r)
        \/ IsTriggerBound(r)
        \/ BindEventType(r)
        \/ IsTriggerLinked(r)
        \/ BindTriggerTrigger(r)

Spec == Init /\ [][Next]_vars

---------------------------------------------------------------------------
(* Vocabulary of the properties *)

Done(r) == frame[r].pc = "done"
Succeeded(r) == Done(r) /\ result[r].tag = "Ok"
Failed(r) == Done(r) /\ result[r].tag = "Err"
NoCallFailed(r) == \A i \in DOMAIN calls[r] : calls[r][i].ok

\* the positions of run r's calls of operation op
CallsOf(r, op) == {i \in DOMAIN calls[r] : calls[r][i].op = op}
\* ... with the given arguments
CallsWith(r, op, args) == {i \in CallsOf(r, op) : calls[r][i].args = args}

IsPrefix(s, t) == Len(s) <= Len(t) /\ SubSeq(t, 1, Len(s)) = s

Fields == {"event_types", "rules", "triggers", "et_trig", "trig_rule", "trig_trig"}

\* no two entities of one kind with the same name / signature
NoDuplicates(s) ==
    /\ \A a, b \in DOMAIN s.event_types : s.event_types[a] = s.event_types[b] => a = b
    /\ \A a, b \in DOMAIN s.triggers : s.triggers[a].name = s.triggers[b].name => a = b
    /\ \A a, b \in DOMAIN s.rules : s.rules[a].target = s.rules[b].target => a = b

ValidText == text \in ValidDocs
Triggers == IF text.kind = "mapping" THEN text.raw.triggers ELSE <<>>
SigOf(k) == SignatureFromTarget(Triggers[k].rule.target)

---------------------------------------------------------------------------
(* Properties *)

\* C1: of two runs of a valid document, one after the other, in which no call
\* failed, both return Ok with the same event-type, trigger and rule ids, and
\* the service then holds no two event types or triggers of one name and no
\* two rules of one signature.
C1_RerunIdempotent ==
    \A p, q \in Runs :
        (p < q /\ ValidText /\ Done(p) /\ Done(q) /\ NoCallFailed(p) /\ NoCallFailed(q))
        => /\ result[p].tag = "Ok" /\ result[q].tag = "Ok"
           /\ result[p].summary.event_types = result[q].summary.event_types
           /\ result[p].summary.triggers = result[q].summary.triggers
           /\ result[p].summary.rules = result[q].summary.rules
           /\ NoDuplicates(svc)

C1_Witness ==
    /\ text = DocLinks /\ Succeeded(1) /\ Succeeded(2)
    /\ NoCallFailed(1) /\ NoCallFailed(2)
    /\ result[2].summary.triggers = [n \in {"A", "B"} |-> IF n = "A" THEN 1 ELSE 2]
    /\ Len(svc.rules) = 2

\* C2: when two triggers of the document have the same rule signature and the
\* service held no rule of that signature when the run began, the run issues at
\* most one create_rule for it, and a run that returns Ok issued exactly one and
\* bound both triggers to the rule it created.
C2_OneRulePerSignature ==
    \A r \in Runs : \A a, b \in DOMAIN Triggers :
        (/\ ValidText /\ a < b /\ SigOf(a).sig = SigOf(b).sig
         /\ \A n \in DOMAIN svc_at_start[r].rules :
                svc_at_start[r].rules[n].target # SigOf(a).sig)
        => LET creates == {i \in CallsOf(r, "create_rule") :
                               calls[r][i].args[1] = SigOf(a).sig}
               binds == SelectSeq(calls[r], LAMBDA c : c.op = "list_rules_for_trigger")
           IN  /\ Cardinality(creates) <= 1
               /\ Succeeded(r) =>
                    /\ Cardinality(creates) = 1
                    /\ binds[a].args[2] = binds[b].args[2]
                    /\ binds[a].args[2] = result[r].summary.rules[SigOf(a).s]
                    /\ svc.rules[binds[a].args[2]].target = SigOf(a).sig
                    /\ binds[a].args[2] > Len(svc_at_start[r].rules)

C2_Witness ==
    /\ text = DocAB /\ Succeeded(1)
    /\ Cardinality(CallsOf(1, "create_rule")) = 1
    /\ svc.trig_rule = <<<<1, 1>>, <<2, 1>>>>

\* the relations of s, as sets of pairs
EtTrig(s) == Range(s.et_trig)
TrigRule(s) == Range(s.trig_rule)
TrigTrig(s) == Range(s.trig_trig)

\* C3: when a run returns Ok, the service holds, for every trigger of the
\* document, a trigger of that name, a rule of its signature, a Trigger-Rule
\* relation between the two, and an EventType-Trigger relation between the
\* trigger and each of its event types.
C3_SuccessBuildsGraph ==
    \A r \in Runs : Succeeded(r) =>
        \A k \in DOMAIN Triggers :
            \E t \in DOMAIN svc.triggers, u \in DOMAIN svc.rules :
                /\ svc.triggers[t].name = Triggers[k].name
                /\ svc.rules[u].target = SigOf(k).sig
                /\ <<t, u>> \in TrigRule(svc)
                /\ \A n \in Range(EtNames(Triggers[k])) :
                       \E e \in DOMAIN svc.event_types :
                           /\ svc.event_types[e] = n
                           /\ <<e, t>> \in EtTrig(svc)

\* the document has exactly one depends_on, naming another of its triggers, and
\* no legacy link; DependsPair is <<dependency, dependent>>
OneDependsOn ==
    /\ ValidText
    /\ text.raw.links = <<>>
    /\ Cardinality({k \in DOMAIN Triggers : TruthyName(Triggers[k].depends_on)}) = 1
    /\ \E k, m \in DOMAIN Triggers :
           /\ Triggers[k].depends_on = Triggers[m].name
           /\ Triggers[k].name # Triggers[m].name
    /\ \A k, m \in DOMAIN Triggers : k # m => Triggers[k].name # Triggers[m].name
DependsPair ==
    LET k == CHOOSE n \in DOMAIN Triggers : TruthyName(Triggers[n].depends_on)
    IN  <<Triggers[k].depends_on, Triggers[k].name>>

\* C4: for a document with triggers A and B, B.depends_on = A, in either order,
\* and no legacy links, a run that returns Ok against a service that held no
\* chain relation between the two when it began issued exactly one
\* link_trigger_child call, with parent the id of A and child the id of B.
C4_OneChainEdge ==
    \A r \in Runs :
        (OneDependsOn /\ Succeeded(r))
        => LET parent == result[r].summary.triggers[DependsPair[1]]
               child == result[r].summary.triggers[DependsPair[2]]
           IN  <<parent, child>> \notin TrigTrig(svc_at_start[r])
               => /\ Cardinality(CallsOf(r, "link_trigger_child")) = 1
                  /\ CallsWith(r, "link_trigger_child", <<parent, child>>) # {}
                  /\ svc.triggers[parent].name = DependsPair[1]
                  /\ svc.triggers[child].name = DependsPair[2]

\* the dependent trigger comes first in the document
C4_Witness ==
    /\ text = DocBA /\ Succeeded(1)
    /\ result[1].summary.triggers = [n \in {"A", "B"} |-> IF n = "B" THEN 1 ELSE 2]
    /\ CallsWith(1, "link_trigger_child", <<2, 1>>) # {}
    /\ svc.trig_trig = <<<<2, 1>>>>

\* "alias:svc.run#run"
AliasSvcRunRun ==
    <<"a", "l", "i", "a", "s", ":", "s", "v", "c", ".", "r", "u", "n", "#", "r", "u", "n">>

\* C5: for the document of one trigger t1 with alias "svc.run", no event types,
\* no depends_on and no links, a run that returns Ok against an empty service
\* issued one create_event_type ("t1"), one create_rule (signature string
\* "alias:svc.run#run"), one create_trigger ("t1"), one Trigger-Rule link, one
\* EventType-Trigger link and no chain link, and returns links_count = 0.
C5_Scenario ==
    \A r \in Runs :
        (text = DocScenario /\ Succeeded(r) /\ svc_at_start[r] = EmptySvc)
        => /\ Cardinality(CallsOf(r, "create_event_type")) = 1
           /\ CallsWith(r, "create_event_type", <<"t1">>) # {}
           /\ Cardinality(CallsOf(r, "create_rule")) = 1
           /\ DOMAIN result[r].summary.rules = {AliasSvcRunRun}
           /\ \A i \in CallsOf(r, "create_rule") :
                  calls[r][i].args[1] =
                      [kind |-> "alias", alias |-> SvcRun, method |-> <<"r", "u", "n">>]
           /\ Cardinality(CallsOf(r, "create_trigger")) = 1
           /\ CallsWith(r, "create_trigger", <<"t1", None>>) # {}
           /\ Cardinality(CallsOf(r, "link_rule_to_trigger")) = 1
           /\ Cardinality(CallsOf(r, "link_trigger_to_event_type")) = 1
           /\ CallsOf(r, "link_trigger_child") = {}
           /\ CallsOf(r, "list_trigger_children") = {}
           /\ result[r].summary.links_count = 0
           /\ DOMAIN result[r].summary.event_types = {"t1"}
           /\ DOMAIN result[r].summary.triggers = {"t1"}

C5_Witness ==
    /\ text = DocScenario /\ Succeeded(1) /\ NoCallFailed(1)
    /\ Len(calls[1]) = 10
    /\ svc.et_trig = <<<<1, 1>>>> /\ svc.trig_rule = <<<<1, 1>>>>

\* C6: a call of a run that failed is the last call the run issued, and the
\* run has returned Err.
C6_FailFast ==
    \A r \in Runs : \A i \in DOMAIN calls[r] :
        ~calls[r][i].ok => (i = Len(calls[r]) /\ Failed(r))

\* the text fails validation: it is empty or unparseable, has no or an empty
\* triggers list, a target with neither alias nor bucket_id and key, or
\* parameters with both blocks empty
FailsValidation ==
    \/ text.kind \in {"empty", "unparseable"}
    \/ /\ text.kind = "mapping"
       /\ \/ ~text.raw.has_triggers
          \/ text.raw.triggers = <<>>
          \/ \E k \in DOMAIN text.raw.triggers :
                 LET tgt == text.raw.triggers[k].rule.target
                     params == text.raw.triggers[k].rule.parameters
                 IN  \/ /\ tgt.alias \in {NoneS, <<>>}
                        /\ tgt.bucket_id \in {NoneS, <<>>} \/ tgt.key \in {NoneS, <<>>}
                     \/ params.init = <<>> /\ params.call = <<>>

\* C7: a document that fails validation makes every run return Err without
\* issuing a call, and the service is left as it was.
C7_InvalidNoCalls ==
    FailsValidation =>
        \A r \in Runs :
            /\ calls[r] = <<>>
            /\ svc = EmptySvc
            /\ Done(r) => (result[r].tag = "Err" /\ svc = svc_at_start[r])
            /\ frame[r].pc \in {"idle", "done"}

C7_Witness ==
    /\ text \in InvalidDocs /\ text.kind = "mapping" /\ Len(text.raw.triggers) = 2
    /\ Failed(1) /\ Failed(2)
    /\ result[1].error = ValueError

ResolverOps == {"list_event_types", "create_event_type", "list_rules", "create_rule",
                "get_trigger_by_name", "create_trigger"}

\* C8: when a lookup or create call of a resolver fails with error e, the run
\* returns Err(e), with that same error.
C8_ResolverErrorAsIs ==
    \A r \in Runs : \A i \in DOMAIN calls[r] :
        (calls[r][i].op \in ResolverOps /\ ~calls[r][i].ok)
        => (Failed(r) /\ result[r].error = HTTPStatusError(calls[r][i].op, ServerError))

AllowedOps == ResolverOps \cup
    {"list_rules_for_trigger", "link_rule_to_trigger",
     "list_triggers_for_event_type", "link_trigger_to_event_type",
     "list_trigger_children", "link_trigger_child"}

\* every entity a create call of run r made, and every relation a link call of
\* run r made, is in the service
CreatedPresent(r) ==
    \A i \in DOMAIN calls[r] :
        LET c == calls[r][i]
        IN  c.ok =>
              /\ c.op = "create_event_type" => c.args[1] \in Range(svc.event_types)
              /\ c.op = "create_rule" =>
                    \E u \in DOMAIN svc.rules :
                        svc.rules[u] = [target |-> c.args[1], parameters |-> c.args[2]]
              /\ c.op = "create_trigger" =>
                    \E t \in DOMAIN svc.triggers :
                        svc.triggers[t] = [name |-> c.args[1], depends_on |-> c.args[2]]
              /\ c.op = "link_rule_to_trigger" => c.args \in TrigRule(svc)
              /\ c.op = "link_trigger_to_event_type" => c.args \in EtTrig(svc)
              /\ c.op = "link_trigger_child" => c.args \in TrigTrig(svc)

\* C9: a run issues only find, list, create and link calls; no step removes or
\* changes an entity or a relation of the service, so what a run created before
\* it failed is still there when it has returned Err.
C9_NoRollback ==
    /\ [][\A fld \in Fields : IsPrefix(svc[fld], svc'[fld])]_vars
    /\ [](\A r \in Runs :
            /\ \A i \in DOMAIN calls[r] : calls[r][i].op \in AllowedOps
            /\ CreatedPresent(r)
            /\ \A fld \in Fields : IsPrefix(svc_at_start[r][fld], svc[fld]))

\* a run failed after it had created entities and relations, which are still there
C9_Witness ==
    /\ text = DocLinks /\ Failed(1)
    /\ Len(svc.et_trig) = 2 /\ Len(svc.triggers) = 1 /\ Len(svc.rules) = 2
    /\ ~calls[1][Len(calls[1])].ok

\* C10: a run that has returned has returned Ok(summary) or Err(error); it
\* returned Ok only if none of its calls failed, and an Err carries no summary.
C10_OkOnlyIfAllSucceeded ==
    \A r \in Runs : Done(r) =>
        /\ result[r].tag \in {"Ok", "Err"}
        /\ result[r].tag = "Ok" => NoCallFailed(r)
        /\ result[r].tag = "Err" => result[r].summary = NoSummary

---------------------------------------------------------------------------
(* The graph a document describes, built from the document alone *)

\* the positions of keys that hold a value no earlier position holds
FirstOccurrences(keys) ==
    {k \in DOMAIN keys : \A j \in DOMAIN keys : j < k => keys[j] # keys[k]}

\* the elements of seq at the positions pos, in order
Pick(seq, pos) ==
    LET Sel[i \in 0..Len(seq)] ==
            IF i = 0 THEN <<>>
            ELSE IF i \in pos THEN Append(Sel[i - 1], seq[i]) ELSE Sel[i - 1]
    IN  Sel[Len(seq)]

\* the event-type names of all triggers, in document order
AllEtNames ==
    LET F[k \in 0..Len(Triggers)] ==
            IF k = 0 THEN <<>> ELSE F[k - 1] \o EtNames(Triggers[k])
    IN  F[Len(Triggers)]

RefEventTypes == Pick(AllEtNames, FirstOccurrences(AllEtNames))
RefRules ==
    Pick([k \in DOMAIN Triggers |->
              [target |-> SigOf(k).sig,
               parameters |-> EncodeParameters(Triggers[k].rule.parameters)]],
         FirstOccurrences([k \in DOMAIN Triggers |-> SigOf(k).sig]))
RefTriggers ==
    Pick([k \in DOMAIN Triggers |->
              [name |-> Triggers[k].name, depends_on |-> Triggers[k].depends_on]],
         FirstOccurrences([k \in DOMAIN Triggers |-> Triggers[k].name]))

RefEtId(n) == First({i \in DOMAIN RefEventTypes : RefEventTypes[i] = n})
RefRuleId(sig) == First({i \in DOMAIN RefRules : RefRules[i].target = sig})
RefTrigId(n) == First({i \in DOMAIN RefTriggers : RefTriggers[i].name = n})

RefEtTrig ==
    UNION {{<<RefEtId(n), RefTrigId(Triggers[k].name)>> : n \in Range(EtNames(Triggers[k]))} :
           k \in DOMAIN Triggers}
RefTrigRule ==
    {<<RefTrigId(Triggers[k].name), RefRuleId(SigOf(k).sig)>> : k \in DOMAIN Triggers}
RefTrigTrig ==
    {<<RefTrigId(Triggers[k].depends_on), RefTrigId(Triggers[k].name)>> :
        k \in {n \in DOMAIN Triggers : /\ TruthyName(Triggers[n].depends_on)
                                       /\ RefTrigId(Triggers[n].depends_on) # 0}}
    \cup
    {<<RefTrigId(text.raw.links[k].from_trigger), RefTrigId(text.raw.links[k].to_trigger)>> :
        k \in {n \in DOMAIN text.raw.links :
                   /\ RefTrigId(text.raw.links[n].from_trigger) # 0
                   /\ RefTrigId(text.raw.links[n].to_trigger) # 0}}

\* the service holds the graph of the document and nothing else, every
\* relation once
SvcIsRef ==
    /\ svc.event_types = RefEventTypes
    /\ svc.rules = RefRules
    /\ svc.triggers = RefTriggers
    /\ EtTrig(svc) = RefEtTrig /\ Len(svc.et_trig) = Cardinality(RefEtTrig)
    /\ TrigRule(svc) = RefTrigRule /\ Len(svc.trig_rule) = Cardinality(RefTrigRule)
    /\ TrigTrig(svc) = RefTrigTrig /\ Len(svc.trig_trig) = Cardinality(RefTrigTrig)

CreatingOps == {"create_event_type", "create_rule", "create_trigger",
                "link_rule_to_trigger", "link_trigger_to_event_type", "link_trigger_child"}

\* what a create or link call makes: the name, the signature, or the pair
Made(c) == IF c.op \in {"create_rule", "create_trigger"} THEN c.args[1] ELSE c.args

\* run q makes nothing that a call of an earlier run made
NoRecreate(q) ==
    \A i \in DOMAIN calls[q] : \A p \in Runs : \A j \in DOMAIN calls[p] :
        (/\ p < q /\ calls[q][i].op \in CreatingOps
         /\ calls[p][j].op = calls[q][i].op /\ calls[p][j].ok)
        => Made(calls[p][j]) # Made(calls[q][i])

\* C11: when every earlier run of a valid document failed and run q, started
\* on what they left, returns Ok with no call failing, run q has made no
\* entity and no relation that an earlier run made, and the service holds
\* exactly what one failure-free run leaves on an empty service (the graph of
\* the document: the same entities with the same ids, every relation once).
C11_RecoveryByRerun ==
    \A q \in Runs :
        (/\ ValidText /\ Succeeded(q) /\ NoCallFailed(q)
         /\ \A p \in Runs : p < q => Failed(p)
         /\ \A p \in Runs : p > q => frame[p].pc = "idle")
        => SvcIsRef /\ NoRecreate(q)

\* the first run failed after it had made entities and relations; the second
\* made the rest
C11_Witness ==
    /\ text = DocLinks /\ Failed(1) /\ Succeeded(2) /\ NoCallFailed(2)
    /\ Len(svc_at_start[2].et_trig) = 3 /\ Len(svc_at_start[2].triggers) = 2
    /\ svc_at_start[2].trig_trig = <<>>
    /\ CallsOf(2, "link_trigger_child") # {} /\ CallsOf(2, "create_trigger") = {}
    /\ SvcIsRef

---------------------------------------------------------------------------
(* Concurrent runs: the host calls index_from_text again while an earlier  *)
(* call is still awaiting the service, and the round trips of the two runs *)
(* interleave.  At most two runs are in progress at a time, and the service *)
(* answers every call.                                                      *)

\* one trigger that names itself in depends_on
DocSelf == Doc(<<Trig("t1", "t1", Alias(Job), CallX(1), <<>>)>>, <<>>)

ConcurrentDocs == {DocScenario, DocSelf}

InProgress == {q \in Runs : frame[q].pc \notin {"idle", "done"}}

\* index_from_text is called while at most one other call is in progress
BeginOverlapping(r) ==
    /\ Cardinality(InProgress) <= 1
    /\ Begin(r)

InitConcurrent ==
    /\ text \in ConcurrentDocs
    /\ svc = EmptySvc
    /\ failures = MaxFailures
    /\ frame = [r \in Runs |-> IdleFrame]
    /\ result = [r \in Runs |-> NoResult]
    /\ calls = [r \in Runs |-> <<>>]
    /\ svc_at_start = [r \in Runs |-> EmptySvc]
    /\ arg = <<>>
    /\ ret = <<>>

NextConcurrent ==
    \E r \in Runs :
        \/ BeginOverlapping(r)
        \/ FindEventType(r)
        \/ CreateEventType(r)
        \/ FindRule(r)
        \/ CreateRule(r)
        \/ FindTrigger(r)
        \/ CreateTrigger(r)
        \/ IsRuleBound(r)
        \/ BindRule(r)
        \/ IsTriggerBound(r)
        \/ BindEventType(r)
        \/ IsTriggerLinked(r)
        \/ BindTriggerTrigger(r)

SpecConcurrent == InitConcurrent /\ [][NextConcurrent]_vars

\* the runs a create call of which, of operation op for key (a name or a
\* signature), was answered
Creators(op, key) ==
    {r \in Runs : \E i \in CallsOf(r, op) : calls[r][i].args[1] = key /\ calls[r][i].ok}

\* C12: with two runs of one document in progress at a time on a service that
\* starts empty, nothing makes a create wait for or look at the other run: a
\* run issues at most one create per name or signature, every create adds an
\* entity, and so the service holds as many event types of a name, rules of a
\* signature and triggers of a name as there are runs that created one; two
\* runs that both found nothing leave two of them.
C12_CheckThenActRace ==
    /\ \A r \in Runs : \A i, j \in DOMAIN calls[r] :
           (/\ calls[r][i].op \in {"create_event_type", "create_rule", "create_trigger"}
            /\ calls[r][j].op = calls[r][i].op
            /\ calls[r][j].args[1] = calls[r][i].args[1]) => i = j
    /\ \A k \in DOMAIN Triggers :
           /\ \A n \in Range(EtNames(Triggers[k])) :
                  Cardinality({e \in DOMAIN svc.event_types : svc.event_types[e] = n})
                      = Cardinality(Creators("create_event_type", n))
           /\ Cardinality({u \in DOMAIN svc.rules : svc.rules[u].target = SigOf(k).sig})
                  = Cardinality(Creators("create_rule", SigOf(k).sig))
           /\ Cardinality({t \in DOMAIN svc.triggers : svc.triggers[t].name = Triggers[k].name})
                  = Cardinality(Creators("create_trigger", Triggers[k].name))

\* both runs found no event type "t1" and no rule of the signature, and both
\* created one
C12_Witness ==
    /\ text = DocScenario /\ Succeeded(1) /\ Succeeded(2)
    /\ svc_at_start[1] = EmptySvc /\ svc_at_start[2] = EmptySvc
    /\ svc.event_types = <<"t1", "t1">>
    /\ Len(svc.rules) = 2 /\ svc.rules[1].target = svc.rules[2].target
    /\ Creators("create_event_type", "t1") = {1, 2}
    /\ Creators("create_rule", SigOf(1).sig) = {1, 2}

---------------------------------------------------------------------------
(* The order of a run's calls *)

\* the step of _index_entities a call belongs to: 1 event types, 2 rule,
\* 3 trigger, 4 Trigger-Rule, 5 EventType-Trigger, 6 trigger chains
StepOf(op) ==
    CASE op \in {"list_event_types", "create_event_type"} -> 1
      [] op \in {"list_rules", "create_rule"} -> 2
      [] op \in {"get_trigger_by_name", "create_trigger"} -> 3
      [] op \in {"list_rules_for_trigger", "link_rule_to_trigger"} -> 4
      [] op \in {"list_triggers_for_event_type", "link_trigger_to_event_type"} -> 5
      [] OTHER -> 6

StepAt(r, i) == StepOf(calls[r][i].op)

\* the trigger the i-th call of run r works on: one more than the number of
\* times, up to that call, the run went from step 5 back to step 1
TriggerAt(r, i) ==
    1 + Cardinality({j \in 2..i : StepAt(r, j - 1) = 5 /\ StepAt(r, j) = 1})

\* the calls of operation op among the first i calls of run r that work on
\* trigger k
Upto(r, i, k, op) ==
    {j \in 1..i : calls[r][j].op = op /\ TriggerAt(r, j) = k}

\* C13: the calls of a run, up to the trigger chains, go through the triggers
\* in document order and, for each trigger, through the steps in the order
\* event types (each name of the list, in order), rule, trigger, Trigger-Rule
\* bind, EventType-Trigger binds (each event type, in order); no step is
\* skipped or entered twice, and the ids of a bind call are those of the
\* trigger, the rule and the event types resolved for that trigger.
C13_CallOrder ==
    \A r \in Runs : \A i \in DOMAIN calls[r] :
        LET c == calls[r][i]
            k == TriggerAt(r, i)
            trig == Triggers[k]
            step == StepAt(r, i)
            before == IF i = 1 THEN 0 ELSE StepAt(r, i - 1)
            nth_et == Cardinality(Upto(r, i, k, "list_event_types"))
            nth_bind == Cardinality(Upto(r, i, k, "list_triggers_for_event_type"))
        IN  /\ ValidText /\ k \in DOMAIN Triggers
            /\ i = 1 => step = 1
            /\ i > 1 =>
                 /\ before # 6 \/ step = 6
                 /\ step \in {before, before + 1} \/ (before = 5 /\ step = 1)
            /\ step = 1 => nth_et \in DOMAIN EtNames(trig)
            /\ c.op = "create_event_type" =>
                 /\ c.args = <<EtNames(trig)[nth_et]>>
                 /\ calls[r][i - 1].op = "list_event_types"
            /\ (step = 2 /\ before = 1) => nth_et = Len(EtNames(trig))
            /\ c.op = "create_rule" =>
                 c.args = <<SigOf(k).sig, EncodeParameters(trig.rule.parameters)>>
            /\ step = 3 => c.args[1] = trig.name
            /\ step = 4 =>
                 /\ c.args[1] \in DOMAIN svc.triggers
                 /\ svc.triggers[c.args[1]].name = trig.name
                 /\ c.args[2] \in DOMAIN svc.rules
                 /\ svc.rules[c.args[2]].target = SigOf(k).sig
                 /\ Upto(r, i, k, "get_trigger_by_name") # {}
                 /\ Upto(r, i, k, "list_rules") # {}
            /\ step = 5 =>
                 /\ nth_bind \in DOMAIN EtNames(trig)
                 /\ c.args[1] \in DOMAIN svc.event_types
                 /\ svc.event_types[c.args[1]] = EtNames(trig)[nth_bind]
                 /\ c.args[2] \in DOMAIN svc.triggers
                 /\ svc.triggers[c.args[2]].name = trig.name
                 /\ Cardinality(Upto(r, i, k, "list_rules_for_trigger")) = 1
            /\ (step = 1 /\ before = 5) =>
                 Cardinality(Upto(r, i - 1, k - 1, "list_triggers_for_event_type"))
                     = Len(EtNames(Triggers[k - 1]))

\* a run through the two triggers of a document, the first with two event
\* types, the second with one event type listed twice
C13_Witness ==
    /\ text = DocLinks /\ Succeeded(1) /\ NoCallFailed(1) /\ svc_at_start[1] = EmptySvc
    /\ Len(calls[1]) = 28
    /\ TriggerAt(1, 14) = 1 /\ TriggerAt(1, 15) = 2
    /\ calls[1][19] = [op |-> "get_trigger_by_name", args |-> <<"B">>, ok |-> TRUE]
    /\ StepAt(1, 25) = 5 /\ StepAt(1, 26) = 6

TriggerPcs == {"find_event_type", "create_event_type", "find_rule", "create_rule",
               "find_trigger", "create_trigger", "is_rule_bound", "bind_rule",
               "is_trigger_bound", "bind_event_type"}
DependsOnPcs == {"is_linked_depends_on", "bind_depends_on"}
LinkPcs == {"is_linked_link", "bind_link"}

\* among the first i calls of run r are all the calls of steps 1 to 5 for
\* trigger k
StepsDone(r, i, k) ==
    /\ Cardinality(Upto(r, i, k, "list_event_types")) >= Len(EtNames(Triggers[k]))
    /\ Upto(r, i, k, "list_rules") # {}
    /\ Upto(r, i, k, "get_trigger_by_name") # {}
    /\ Upto(r, i, k, "list_rules_for_trigger") # {}
    /\ Cardinality(Upto(r, i, k, "list_triggers_for_event_type")) = Len(EtNames(Triggers[k]))

\* C14: a run issues a chain call (list_trigger_children, link_trigger_child)
\* only after the calls of steps 1 to 5 for every trigger of the document, and
\* issues none of those after a chain call; it binds the depends_on edges, in
\* document order, before the legacy links, and never goes back from the
\* legacy links to depends_on or from the chains to a trigger.
C14_ChainsLast ==
    /\ [](\A r \in Runs : \A i \in DOMAIN calls[r] :
            StepAt(r, i) = 6 =>
                /\ \A k \in DOMAIN Triggers : StepsDone(r, i, k)
                /\ \A j \in DOMAIN calls[r] : j > i => StepAt(r, j) = 6
                /\ frame[r].pc \in DependsOnPcs \cup LinkPcs \cup {"done"})
    /\ [][\A r \in Runs :
            /\ frame[r].pc \in DependsOnPcs =>
                 /\ frame'[r].pc \in DependsOnPcs \cup LinkPcs \cup {"done"}
                 /\ frame'[r].pc \in DependsOnPcs => frame'[r].i >= frame[r].i
            /\ frame[r].pc \in LinkPcs =>
                 /\ frame'[r].pc \in LinkPcs \cup {"done"}
                 /\ frame'[r].pc \in LinkPcs => frame'[r].i >= frame[r].i
            /\ (frame[r].pc \in TriggerPcs /\ calls'[r] # calls[r]) =>
                 StepOf(calls'[r][Len(calls'[r])].op) # 6]_vars

\* the depends_on edge of the document is bound and its legacy link is next
C14_Witness ==
    /\ text = DocLinks /\ frame[1].pc = "is_linked_link"
    /\ Cardinality(CallsOf(1, "list_trigger_children")) = 1
    /\ Cardinality(CallsOf(1, "link_trigger_child")) = 1
    /\ \A k \in DOMAIN Triggers : StepsDone(1, Len(calls[1]), k)

\* C15: the links_count of the summary a run returns is the number of chain
\* edges the run created, that is, of its link_trigger_child calls.
C15_LinksCountIsCreated ==
    \A r \in Runs : Succeeded(r) =>
        result[r].summary.links_count
            = Cardinality({i \in CallsOf(r, "link_trigger_child") : calls[r][i].ok})

\* the <<parent, child>> pairs of run r's list_trigger_children calls, in order
ChainLists(r) ==
    LET lists == SelectSeq(calls[r], LAMBDA c : c.op = "list_trigger_children")
    IN  [i \in DOMAIN lists |-> lists[i].args]

\* the depends_on edges of the document whose two triggers are in ids (a map
\* from trigger names to ids), as <<parent, child>> pairs in document order
DependsOnEdges(ids) ==
    LET F[k \in 0..Len(Triggers)] ==
            IF k = 0 THEN <<>>
            ELSE IF /\ TruthyName(Triggers[k].depends_on)
                    /\ Triggers[k].depends_on \in DOMAIN ids
                    /\ Triggers[k].name \in DOMAIN ids
                 THEN Append(F[k - 1], <<ids[Triggers[k].depends_on], ids[Triggers[k].name]>>)
                 ELSE F[k - 1]
    IN  F[Len(Triggers)]

\* trigger k names in depends_on a trigger the document does not hold
Dangling(k) ==
    /\ TruthyName(Triggers[k].depends_on)
    /\ \A m \in DOMAIN Triggers : Triggers[m].name # Triggers[k].depends_on

\* C16: a run binds a depends_on edge only for a trigger whose depends_on is
\* in the run's map of resolved trigger names, with parent the id of the
\* named trigger and child the id of the dependent one; for a depends_on that
\* names no trigger of the document no chain call is issued, and the run
\* still returns Ok when none of its calls fails.
C16_DanglingDependsOn ==
    \A r \in Runs :
        /\ frame[r].pc \in DependsOnPcs =>
             LET trig == Triggers[frame[r].i]
                 ids == frame[r].trigger_ids
             IN  /\ TruthyName(trig.depends_on)
                 /\ ~Dangling(frame[r].i)
                 /\ trig.depends_on \in DOMAIN ids /\ trig.name \in DOMAIN ids
                 /\ ChainEdge(frame[r]) = <<ids[trig.depends_on], ids[trig.name]>>
        /\ Succeeded(r) =>
             /\ IsPrefix(DependsOnEdges(result[r].summary.triggers), ChainLists(r))
             /\ \A i \in DOMAIN ChainLists(r) :
                    /\ ChainLists(r)[i][1] \in DOMAIN svc.triggers
                    /\ ChainLists(r)[i][2] \in DOMAIN svc.triggers
        /\ (ValidText /\ Done(r) /\ NoCallFailed(r)) => result[r].tag = "Ok"

\* trigger A depends on Z, which the document does not hold: the run returns
\* Ok and its one chain call is for the legacy link from B to A
C16_Witness ==
    /\ text = DocDangling /\ Dangling(1) /\ Succeeded(1) /\ NoCallFailed(1)
    /\ DependsOnEdges(result[1].summary.triggers) = <<>>
    /\ ChainLists(1) = <<<<2, 1>>>>

\* the legacy links of the document whose two triggers are in ids, as
\* <<parent, child>> pairs in document order; order and condition are not read
LinkEdges(ids) ==
    LET links == text.raw.links
        F[k \in 0..Len(links)] ==
            IF k = 0 THEN <<>>
            ELSE IF links[k].from_trigger \in DOMAIN ids /\ links[k].to_trigger \in DOMAIN ids
                 THEN Append(F[k - 1], <<ids[links[k].from_trigger], ids[links[k].to_trigger]>>)
                 ELSE F[k - 1]
    IN  F[Len(links)]

\* C17: after the depends_on edges, a run that returns Ok has gone through
\* the legacy links in document order and issued a chain binding, with parent
\* the id of `from` and child the id of `to`, for exactly the links whose two
\* names are in its map of resolved triggers; the others are skipped, and the
\* order and condition of a link change neither which calls are issued nor
\* their order or arguments.  A link_trigger_child call carries the pair of the
\* list_trigger_children call before it.
C17_LegacyLinks ==
    \A r \in Runs :
        /\ Succeeded(r) =>
             ChainLists(r) = DependsOnEdges(result[r].summary.triggers)
                                 \o LinkEdges(result[r].summary.triggers)
        /\ frame[r].pc \in LinkPcs =>
             LET link == SpecOf.links[frame[r].i]
                 ids == frame[r].trigger_ids
             IN  /\ link.from_trigger \in DOMAIN ids /\ link.to_trigger \in DOMAIN ids
                 /\ ChainEdge(frame[r]) = <<ids[link.from_trigger], ids[link.to_trigger]>>
        /\ \A i \in CallsOf(r, "link_trigger_child") :
               /\ calls[r][i - 1].op = "list_trigger_children"
               /\ calls[r][i - 1].args = calls[r][i].args

\* the link from B to A, of order 2 and with a condition, is bound before the
\* link from A to B, of order 1
C17_Witness ==
    /\ text = DocOrdered /\ Succeeded(1) /\ NoCallFailed(1) /\ svc_at_start[1] = EmptySvc
    /\ ChainLists(1) = <<<<2, 1>>, <<1, 2>>>>
    /\ svc.trig_trig = <<<<2, 1>>, <<1, 2>>>>

IsBoundPcs == {"is_rule_bound", "is_trigger_bound", "is_linked_depends_on", "is_linked_link"}
BindPcs == {"bind_rule", "bind_event_type", "bind_depends_on", "bind_link"}

\* the ensure-relation operation a run at frame f is in: the pair it ensures,
\* the relation of the service, its listing and link calls, its link position
Ensuring(f) ==
    IF f.pc \in {"is_rule_bound", "bind_rule"}
    THEN [pair |-> <<f.trig_id, f.rule_id>>, rel |-> "trig_rule",
          list_op |-> "list_rules_for_trigger", link_op |-> "link_rule_to_trigger",
          bind_pc |-> "bind_rule"]
    ELSE IF f.pc \in {"is_trigger_bound", "bind_event_type"}
    THEN [pair |-> <<f.et_ids_for_this_trigger[f.j], f.trig_id>>, rel |-> "et_trig",
          list_op |-> "list_triggers_for_event_type",
          link_op |-> "link_trigger_to_event_type", bind_pc |-> "bind_event_type"]
    ELSE [pair |-> ChainEdge(f), rel |-> "trig_trig",
          list_op |-> "list_trigger_children", link_op |-> "link_trigger_child",
          bind_pc |-> IF f.pc \in DependsOnPcs THEN "bind_depends_on" ELSE "bind_link"]

\* C18: an ensure-relation operation first issues the listing call for its
\* pair; it goes on to a link call exactly when the listing was answered and
\* the pair is not in it, issues that one link call for the same pair, and
\* lets the run go on (no Err) both when the pair was in the listing and when
\* the link call was answered, after which the pair is in the relation.
C18_EnsureRelation ==
    [][\A r \in Runs :
         LET f == frame[r]
             e == Ensuring(f)
             last == calls'[r][Len(calls'[r])]
         IN  /\ (f.pc \in IsBoundPcs /\ frame'[r] # f) =>
                  /\ calls'[r] = Append(calls[r], last)
                  /\ last.op = e.list_op /\ last.args = e.pair
                  /\ frame'[r].pc \in BindPcs <=> (last.ok /\ e.pair \notin Range(svc[e.rel]))
                  /\ frame'[r].pc \in BindPcs =>
                       frame'[r] = [f EXCEPT !.pc = e.bind_pc]
                  /\ (last.ok /\ e.pair \in Range(svc[e.rel])) =>
                       (result'[r].tag # "Err" /\ svc' = svc)
                  /\ ~last.ok => result'[r].tag = "Err"
             /\ (f.pc \in BindPcs /\ frame'[r] # f) =>
                  /\ calls'[r] = Append(calls[r], last)
                  /\ last.op = e.link_op /\ last.args = e.pair
                  /\ calls[r][Len(calls[r])] = [op |-> e.list_op, args |-> e.pair, ok |-> TRUE]
                  /\ frame'[r].pc \notin BindPcs
                  /\ last.ok => /\ result'[r].tag # "Err"
                                /\ svc'[e.rel] = Append(svc[e.rel], e.pair)]_vars

\* the first run linked relations of all three kinds; the second found every
\* pair in its listings and linked none
C18_Witness ==
    /\ text = DocLinks /\ Succeeded(1) /\ Succeeded(2) /\ NoCallFailed(1) /\ NoCallFailed(2)
    /\ CallsOf(1, "link_rule_to_trigger") # {} /\ CallsOf(1, "link_trigger_child") # {}
    /\ CallsOf(1, "link_trigger_to_event_type") # {}
    /\ \A i \in DOMAIN calls[2] : StepAt(2, i) >= 4 => calls[2][i].op \in
           {"list_rules_for_trigger", "list_triggers_for_event_type", "list_trigger_children"}
    /\ Cardinality(CallsOf(2, "list_trigger_children")) = 2

\* C19: a run issues at most one create_event_type call per event-type name,
\* at most one create_trigger call per trigger name, and at most one
\* link_trigger_to_event_type call per pair of event type and trigger.
C19_AtMostOncePerRun ==
    \A r \in Runs : \A i, j \in DOMAIN calls[r] :
        (/\ calls[r][i].op \in {"create_event_type", "create_trigger",
                                "link_trigger_to_event_type"}
         /\ calls[r][j].op = calls[r][i].op
         /\ Made(calls[r][j]) = Made(calls[r][i]))
        => i = j

\* the document expresses the edge from the trigger named a to the trigger
\* named b both as a depends_on and as a legacy link
EdgeTwice(a, b) ==
    /\ \E k \in DOMAIN Triggers : Triggers[k].name = b /\ Triggers[k].depends_on = a
    /\ \E k \in DOMAIN text.raw.links :
           text.raw.links[k].from_trigger = a /\ text.raw.links[k].to_trigger = b
    /\ \E k \in DOMAIN Triggers : Triggers[k].name = a

\* C20: when a document expresses one parent-to-child edge both as a
\* depends_on and as a legacy link, a run that returns Ok on a service that
\* did not hold the edge when it began has issued exactly one
\* link_trigger_child call for it, and the service holds the relation once.
C20_EdgeTwiceLinkedOnce ==
    \A r \in Runs : \A a, b \in {"A", "B", "t1"} :
        (ValidText /\ EdgeTwice(a, b) /\ Succeeded(r))
        => LET edge == <<result[r].summary.triggers[a], result[r].summary.triggers[b]>>
           IN  edge \notin TrigTrig(svc_at_start[r])
               => /\ Cardinality(CallsWith(r, "link_trigger_child", edge)) = 1
                  /\ Cardinality({i \in DOMAIN svc.trig_trig : svc.trig_trig[i] = edge}) = 1

---------------------------------------------------------------------------
(* Rules and their signature strings *)

\* the id of the rule run r resolved for the k-th trigger: the rule of its
\* k-th Trigger-Rule binding
RuleIdOf(r, k) ==
    SelectSeq(calls[r], LAMBDA c : c.op = "list_rules_for_trigger")[k].args[2]

\* C21: in a run that returns Ok, two triggers resolved to the same rule id
\* exactly when their targets have the same signature string, and the rules
\* map of the summary has one entry for every rule the run resolved.
C21_StringIsRuleKey ==
    \A r \in Runs : Succeeded(r) =>
        /\ \A a, b \in DOMAIN Triggers :
               (RuleIdOf(r, a) = RuleIdOf(r, b)) <=> (SigOf(a).s = SigOf(b).s)
        /\ Cardinality(DOMAIN result[r].summary.rules)
               = Cardinality({RuleIdOf(r, k) : k \in DOMAIN Triggers})

---------------------------------------------------------------------------
(* The event types of a trigger *)

\* the calls of operation op of run r that work on trigger k
CallsOn(r, k, op) == Upto(r, Len(calls[r]), k, op)

\* the names of the event types run r took through the EventType-Trigger
\* bind for trigger k
BoundNames(r, k) ==
    {svc.event_types[calls[r][i].args[1]] : i \in CallsOn(r, k, "list_triggers_for_event_type")}

\* the binds of run r for trigger k are in the service, but for those whose
\* link call failed
BindsHeld(r, k) ==
    \A i \in CallsOn(r, k, "list_triggers_for_event_type") :
        \/ <<calls[r][i].args[1], calls[r][i].args[2]>> \in EtTrig(svc)
        \/ /\ i < Len(calls[r])
           /\ calls[r][i + 1].op = "link_trigger_to_event_type"
           /\ ~calls[r][i + 1].ok

\* C22: in a run that returns Ok, a trigger with an empty event_types list
\* has exactly one event type resolved and bound, named as the trigger; a
\* trigger with a non-empty list has the listed names resolved and bound,
\* and no event type named as the trigger is looked up, created or bound for
\* it unless the list holds that name.
C22_OwnNameOnlyWhenEmpty ==
    \A r \in Runs : \A k \in DOMAIN Triggers :
        (ValidText /\ Succeeded(r)) =>
            LET trig == Triggers[k]
                created == {calls[r][i].args[1] : i \in CallsOn(r, k, "create_event_type")}
            IN  /\ BindsHeld(r, k)
                /\ trig.event_types = <<>> =>
                     /\ Cardinality(CallsOn(r, k, "list_event_types")) = 1
                     /\ Cardinality(CallsOn(r, k, "list_triggers_for_event_type")) = 1
                     /\ BoundNames(r, k) = {trig.name}
                     /\ created \subseteq {trig.name}
                /\ trig.event_types # <<>> =>
                     /\ Cardinality(CallsOn(r, k, "list_event_types")) = Len(trig.event_types)
                     /\ Cardinality(CallsOn(r, k, "list_triggers_for_event_type"))
                            = Len(trig.event_types)
                     /\ BoundNames(r, k) = Range(trig.event_types)
                     /\ created \subseteq Range(trig.event_types)

\* a run of the document whose first trigger lists no event type and whose
\* second trigger lists the name of the first: one event type, named t1,
\* bound to both triggers, and none named t2
C22_Witness ==
    /\ text = DocColon /\ Succeeded(1) /\ NoCallFailed(1)
    /\ svc.event_types = <<"t1">>
    /\ Len(svc.triggers) = 2
    /\ EtTrig(svc) = {<<1, 1>>, <<1, 2>>}

---------------------------------------------------------------------------
(* Trigger names *)

\* C24: a document with two triggers of the same name does not pass
\* validation: in every run that returns Ok the trigger names of the document
\* are pairwise distinct, and no trigger of the service is bound to two rules.
C24_UniqueTriggerNames ==
    \A r \in Runs : Succeeded(r) =>
        /\ \A a, b \in DOMAIN Triggers : a # b => Triggers[a].name # Triggers[b].name
        /\ \A x, y \in TrigRule(svc) : x[1] = y[1] => x[2] = y[2]

---------------------------------------------------------------------------
(* The target of a rule on its own: a TargetSpec is constructed from the   *)
(* fields of a mapping, and its signature is derived.                      *)

ABC == <<"a", ".", "b", ".", "c">>

\* the values of a target's alias: absent, empty, plain, dotted, and with a
\* dot at either end
AliasInputs == {NoneS, <<>>, <<"x">>, <<"a", ".", "b">>, ABC, <<"a", ".">>, <<".", "b">>}
BucketInputs == {NoneS, <<>>, <<"B">>}
KeyInputs == {NoneS, <<>>, <<"K">>}
MethodInputs == {NoneS, <<>>, <<"m">>}

TargetInputs == [alias : AliasInputs, bucket_id : BucketInputs, key : KeyInputs,
                 method : MethodInputs]

\* the variables of the runs, at rest
NoRuns ==
    /\ text = [kind |-> "empty"]
    /\ svc = EmptySvc
    /\ failures = 0
    /\ frame = [r \in Runs |-> IdleFrame]
    /\ result = [r \in Runs |-> NoResult]
    /\ calls = [r \in Runs |-> <<>>]
    /\ svc_at_start = [r \in Runs |-> EmptySvc]

InitDerive ==
    /\ NoRuns
    /\ arg \in TargetInputs
    /\ ret = [at |-> "raw"]

\* TargetSpec(**arg): the model validator accepts the fields or raises
ConstructTarget ==
    /\ ret.at = "raw"
    /\ ret' = IF RequireAliasOrBucketKey(arg)
              THEN [at |-> "TargetSpec"]
              ELSE [at |-> "ValueError"]
    /\ UNCHANGED <<arg, text, svc, failures, frame, result, calls, svc_at_start>>

\* _signature_from_target(tgt) of the TargetSpec constructed
DeriveSignature ==
    /\ ret.at = "TargetSpec"
    /\ ret' = [at |-> "derived", out |-> SignatureFromTarget(arg)]
    /\ UNCHANGED <<arg, text, svc, failures, frame, result, calls, svc_at_start>>

NextDerive ==
    \/ ConstructTarget
    \/ DeriveSignature

SpecDerive == InitDerive /\ [][NextDerive]_vars

HasAlias == Truthy(arg.alias)
HasBucketKey == Truthy(arg.bucket_id) /\ Truthy(arg.key)
Constructed == ret.at \in {"TargetSpec", "derived"}
Derived == ret.at = "derived"

\* C23: a target is constructed only if exactly one of the two forms, alias
\* and bucket_id+key, is present; one with both and one with neither are
\* rejected.
C23_ExactlyOneForm ==
    /\ Constructed => ~(HasAlias <=> HasBucketKey)
    /\ ret.at = "ValueError" => (HasAlias <=> HasBucketKey)

\* C27: for a target whose alias has a dot, the method derived is what
\* follows the last dot of the alias, the signature is {kind: alias, alias:
\* the whole alias, method} and the string is "alias:<alias>#<method>"; the
\* alias a.b.c gives the method c and the string alias:a.b.c#c.
C27_DottedAliasSplitsAtLastDot ==
    (Derived /\ HasAlias /\ HasDot(arg.alias)) =>
        /\ ~ret.out.raised
        /\ DOMAIN ret.out.sig = {"kind", "alias", "method"}
        /\ ret.out.sig.kind = "alias"
        /\ ret.out.sig.alias = arg.alias
        /\ ~HasDot(ret.out.sig.method)
        /\ \E n \in DOMAIN arg.alias :
               /\ arg.alias[n] = Dot
               /\ ret.out.sig.method = SubSeq(arg.alias, n + 1, Len(arg.alias))
        /\ ret.out.s = AliasPrefix \o arg.alias \o <<"#">> \o ret.out.sig.method
        /\ arg.alias = ABC =>
               /\ ret.out.sig.method = <<"c">>
               /\ ret.out.s = <<"a", "l", "i", "a", "s", ":",
                                "a", ".", "b", ".", "c", "#", "c">>

\* the alias a.b.c, derived
C27_Witness ==
    /\ Derived /\ arg.alias = ABC
    /\ ret.out.sig = [kind |-> "alias", alias |-> ABC, method |-> <<"c">>]
    /\ ret.out.s = AliasPrefix \o ABC \o <<"#", "c">>

\* C28: for a target whose alias has no dot, the signature is {kind: alias,
\* alias} without a method field and the string is "alias:<alias>" without a
\* "#", whatever the method field of the target holds.
C28_PlainAliasHasNoMethod ==
    (Derived /\ HasAlias /\ ~HasDot(arg.alias)) =>
        /\ ~ret.out.raised
        /\ ret.out.sig = [kind |-> "alias", alias |-> arg.alias]
        /\ ret.out.s = AliasPrefix \o arg.alias
        /\ "#" \notin Range(ret.out.s)

\* the alias x with the method field m, derived
C28_Witness ==
    /\ Derived /\ arg.alias = <<"x">> /\ arg.method = <<"m">>
    /\ ret.out.s = <<"a", "l", "i", "a", "s", ":", "x">>

\* C29: for a target with bucket_id B and key K and no alias, the string is
\* "persisted:B:K" and the signature {kind: persisted, bucket_id, key} has
\* no method field when no method is set; with the method m set the string
\* is "persisted:B:K#m" and the signature holds the method.
C29_PersistedMethodSuffix ==
    (Derived /\ ~HasAlias /\ HasBucketKey) =>
        LET base == PersistedPrefix \o arg.bucket_id \o <<":">> \o arg.key
        IN  /\ ~ret.out.raised
            /\ ~Truthy(arg.method) =>
                 /\ ret.out.s = base
                 /\ ret.out.sig = [kind |-> "persisted", bucket_id |-> arg.bucket_id,
                                   key |-> arg.key]
            /\ Truthy(arg.method) =>
                 /\ ret.out.s = base \o <<"#">> \o arg.method
                 /\ ret.out.sig = [kind |-> "persisted", bucket_id |-> arg.bucket_id,
                                   key |-> arg.key, method |-> arg.method]

\* bucket B and key K with the method m, derived
C29_Witness ==
    /\ Derived /\ arg = Persisted(<<"B">>, <<"K">>, <<"m">>)
    /\ ret.out.s = <<"p", "e", "r", "s", "i", "s", "t", "e", "d", ":", "B", ":", "K", "#", "m">>

---------------------------------------------------------------------------
(* The parameters of a rule on their own: a ParametersSpec is constructed  *)
(* from the mapping of a document, and encoded.                            *)

\* a parameter value that is a mapping: its keys and their values; nonstr
\* holds the keys whose value is no string (a number, written by its digits)
Mapping(d, nonstr) == [tag |-> "dict", d |-> d, nonstr |-> nonstr]

\* d.get(k)
Field(d, k) == IF k \in DOMAIN d THEN d[k] ELSE None

\* an Optional[str] of one character at most, as a character sequence
Chars(n) == IF n = None THEN NoneS ELSE IF n = "" THEN <<>> ELSE <<n>>

\* the RefSpec whose fields are populated from the mapping m
RefFromMapping(m) ==
    [tag |-> "ref", ref |-> Chars(Field(m.d, "ref")), ref_dollar |-> Chars(Field(m.d, "$ref")),
     value |-> Field(m.d, "value"), type |-> Field(m.d, "type"),
     name |-> Field(m.d, "name"), description |-> Field(m.d, "description")]

\* RefSpec.model_validate(m) does not raise: the Optional[str] fields hold
\* strings, and _require_ref_or_value passes
RefSpecAccepts(m) ==
    /\ m.nonstr \cap {"ref", "$ref", "type", "name", "description"} = {}
    /\ RequireRefOrValue(RefFromMapping(m))

\* a value validated as Union[RefSpec, Any]: a mapping RefSpec accepts comes
\* out as a RefSpec or as it is, depending on which member of the union the
\* validator prefers (as_ref); whatever RefSpec rejects, Any accepts
ValidateParamValue(v, as_ref) ==
    IF v.tag = "dict" /\ as_ref /\ RefSpecAccepts(v) THEN RefFromMapping(v) ELSE v

ValidateBlock(block, as_ref) ==
    [name \in DOMAIN block |-> ValidateParamValue(block[name], as_ref)]

ValueInputs ==
    { Lit(0), Lit(1),
      Mapping([ref |-> "r"], {}),
      Mapping(("$ref" :> "r") @@ [type |-> "t"], {}),
      Mapping([value |-> "v", name |-> None], {}),
      Mapping([ref |-> "5"], {"ref"}),
      Mapping([type |-> "t"], {}),
      Mapping(EmptyDict, {}) }

BlockInputs ==
    {EmptyDict}
    \cup {[k \in {"x"} |-> v] : v \in ValueInputs}
    \cup {[k \in {"x", "y"} |-> IF k = "x" THEN v ELSE w] : v \in ValueInputs, w \in ValueInputs}

ParametersInputs == [init : BlockInputs, call : BlockInputs]

InitEncode ==
    /\ NoRuns
    /\ arg \in ParametersInputs
    /\ ret = [at |-> "raw"]

\* ParametersSpec.model_validate(arg): the values are validated, then the
\* model validator accepts the blocks or raises
ConstructParameters ==
    /\ ret.at = "raw"
    /\ \E as_ref \in BOOLEAN :
        LET params == [init |-> ValidateBlock(arg.init, as_ref),
                       call |-> ValidateBlock(arg.call, as_ref)]
        IN  ret' = IF ValidBlock(params.init) /\ ValidBlock(params.call)
                      /\ AtLeastOneBlock(params)
                   THEN [at |-> "ParametersSpec", params |-> params]
                   ELSE [at |-> "ValueError"]
    /\ UNCHANGED <<arg, text, svc, failures, frame, result, calls, svc_at_start>>

\* _encode_parameters(params) of the ParametersSpec constructed
Encode ==
    /\ ret.at = "ParametersSpec"
    /\ ret' = [at |-> "encoded", params |-> ret.params, out |-> EncodeParameters(ret.params)]
    /\ UNCHANGED <<arg, text, svc, failures, frame, result, calls, svc_at_start>>

NextEncode ==
    \/ ConstructParameters
    \/ Encode

SpecEncode == InitEncode /\ [][NextEncode]_vars

Blocks == {"init", "call"}
Validated == ret.at \in {"ParametersSpec", "encoded"}
Encoded == ret.at = "encoded"

\* a mapping whose ref or $ref is no string, or that sets none of ref, $ref
\* and value
MalformedReference(v) ==
    /\ v.tag = "dict"
    /\ \/ v.nonstr \cap {"ref", "$ref"} # {}
       \/ \A f \in {"ref", "$ref", "value"} : Field(v.d, f) = None

\* C25: parameters that hold a malformed reference do not pass validation.
C25_MalformedReferenceRejected ==
    Validated =>
        \A b \in Blocks : \A name \in DOMAIN arg[b] : ~MalformedReference(arg[b][name])

\* C26: the encoding of a valid ParametersSpec has no key but init and call,
\* has each of them exactly when the block it comes from is not empty, with
\* the parameter names of that block, and is not empty.
C26_EncodedBlocks ==
    Encoded =>
        /\ DOMAIN ret.out \subseteq Blocks
        /\ \A b \in Blocks :
               /\ b \in DOMAIN ret.out <=> ret.params[b] # EmptyDict
               /\ b \in DOMAIN ret.out => DOMAIN ret.out[b] = DOMAIN ret.params[b]
               /\ DOMAIN ret.params[b] = DOMAIN arg[b]
        /\ DOMAIN ret.out # {}

\* parameters with a call block of two names and no init block, encoded
C26_Witness ==
    /\ Encoded
    /\ arg.init = EmptyDict /\ DOMAIN arg.call = {"x", "y"}
    /\ DOMAIN ret.out = {"call"} /\ DOMAIN ret.out.call = {"x", "y"}

---------------------------------------------------------------------------
(* References and plain mappings, encoded *)

\* the parameters of the ParametersSpec constructed, as (block, name) pairs
ParamsAt == {<<b, name>> : b \in Blocks, name \in {"x", "y"}}
EncodedAt == {p \in ParamsAt : p[1] \in DOMAIN ret.out /\ p[2] \in DOMAIN ret.out[p[1]]}

\* C31: a RefSpec is encoded as a mapping of the fields it has set, each
\* with its value, and no other key; a RefSpec with only value set gives the
\* value key and neither ref nor $ref.
C31_RefSpecSetFieldsOnly ==
    Encoded =>
        \A p \in EncodedAt :
            LET v == ret.params[p[1]][p[2]]
                out == ret.out[p[1]][p[2]]
            IN  v.tag = "ref" =>
                  /\ "ref" \in DOMAIN out <=> v.ref # NoneS
                  /\ "$ref" \in DOMAIN out <=> v.ref_dollar # NoneS
                  /\ "value" \in DOMAIN out <=> v.value # None
                  /\ "type" \in DOMAIN out <=> v.type # None
                  /\ "name" \in DOMAIN out <=> v.name # None
                  /\ "description" \in DOMAIN out <=> v.description # None
                  /\ DOMAIN out \subseteq {"ref", "$ref", "value", "type", "name", "description"}
                  /\ "ref" \in DOMAIN out => out["ref"] = v.ref
                  /\ "$ref" \in DOMAIN out => out["$ref"] = v.ref_dollar
                  /\ "value" \in DOMAIN out => out["value"] = v.value
                  /\ "type" \in DOMAIN out => out["type"] = v.type
                  /\ (v.ref = NoneS /\ v.ref_dollar = NoneS /\ v.type = None /\ v.name = None
                        /\ v.description = None)
                     => DOMAIN out = {"value"}

\* a RefSpec with only value set, encoded
C31_Witness ==
    /\ Encoded
    /\ arg.call = [k \in {"x"} |-> Mapping([value |-> "v", name |-> None], {})]
    /\ ret.params.call["x"].tag = "ref"
    /\ ret.params.call["x"].ref = NoneS /\ ret.params.call["x"].ref_dollar = NoneS
    /\ ret.out.call["x"] = [value |-> "v"]

\* C32: a parameter value that is a plain mapping is encoded as the mapping
\* of its keys whose value is not None, each with its value, and is not
\* wrapped into {"value": ...}.
C32_MappingWithoutNulls ==
    Encoded =>
        \A p \in EncodedAt :
            LET v == ret.params[p[1]][p[2]]
                out == ret.out[p[1]][p[2]]
            IN  v.tag = "dict" =>
                  /\ DOMAIN out = {k \in DOMAIN v.d : v.d[k] # None}
                  /\ \A k \in DOMAIN out : out[k] = v.d[k]
                  /\ v = arg[p[1]][p[2]]

\* a mapping with a key that holds None, kept a mapping and encoded
C32_Witness ==
    /\ Encoded
    /\ arg.call = [k \in {"x"} |-> Mapping([value |-> "v", name |-> None], {})]
    /\ ret.params.call["x"].tag = "dict"
    /\ ret.out.call["x"] = [value |-> "v"]

---------------------------------------------------------------------------
(* The summary and the graph of the service *)

LegacyLinks == IF text.kind = "mapping" THEN text.raw.links ELSE <<>>

\* the chain edges the document declares: the triggers with a depends_on,
\* and the legacy links
Declared ==
    Cardinality({k \in DOMAIN Triggers : Triggers[k].depends_on \notin {None, ""}})
    + Len(LegacyLinks)

\* C33: the links_count of the summary of a run that returns Ok is the number
\* of triggers of the document with a depends_on plus the number of its
\* legacy links, whatever the service held and whatever the run linked.
C33_LinksCountIsDeclared ==
    \A r \in Runs : Succeeded(r) => result[r].summary.links_count = Declared

\* two runs of the document with a dangling depends_on and a dangling link:
\* the first creates its one resolved edge, the second links nothing, and
\* both count three
C33_Witness ==
    /\ text = DocDangling
    /\ Succeeded(1) /\ Succeeded(2) /\ NoCallFailed(1) /\ NoCallFailed(2)
    /\ Cardinality(CallsOf(1, "link_trigger_child")) = 1
    /\ CallsOf(2, "link_trigger_child") = {}
    /\ result[1].summary.links_count = 3
    /\ result[2].summary.links_count = 3

\* C34: a run in which no call fails, made right after a run of the same
\* document that returned Ok, issues no create call and no link call, and
\* leaves the service as it found it.
C34_RerunOnlyReads ==
    \A r \in Runs \ {1} :
        (Succeeded(r - 1) /\ Done(r) /\ NoCallFailed(r)) =>
            /\ Succeeded(r)
            /\ \A i \in DOMAIN calls[r] : calls[r][i].op \notin CreatingOps
            /\ svc = svc_at_start[r]

\* the call a step has added to the log of run r
LastCall(r) == calls'[r][Len(calls'[r])]

\* C35: no step changes an entity the service holds: a rule keeps its target
\* and its parameters, a trigger its name and its depends_on, an event type
\* its name; a lookup carries no parameters and no depends_on, and the only
\* steps that add an entity are the create calls.
C35_FoundLeftUnchanged ==
    [][ /\ IsPrefix(svc.rules, svc'.rules)
        /\ IsPrefix(svc.triggers, svc'.triggers)
        /\ IsPrefix(svc.event_types, svc'.event_types)
        /\ \A r \in Runs : calls'[r] # calls[r] =>
             /\ LastCall(r).op \in {"list_rules", "list_event_types"} => LastCall(r).args = <<>>
             /\ LastCall(r).op = "get_trigger_by_name" => Len(LastCall(r).args) = 1
             /\ svc'.rules # svc.rules => LastCall(r).op = "create_rule"
             /\ svc'.triggers # svc.triggers => LastCall(r).op = "create_trigger"
      ]_vars

\* the second trigger of a document found the rule the first one created,
\* its own parameters being others: the rule holds those of the first
C35_Witness ==
    /\ text = DocAB /\ Succeeded(1) /\ NoCallFailed(1)
    /\ Cardinality(CallsOf(1, "create_rule")) = 1
    /\ Cardinality(CallsOf(1, "list_rules")) = 2
    /\ Len(svc.rules) = 1
    /\ svc.rules[1].parameters = EncodeParameters(CallX(1))
    /\ svc.rules[1].parameters # EncodeParameters(Triggers[2].rule.parameters)

\* C36: the summary of a run that returns Ok has an entry for every trigger
\* name of the document, for every event-type name it uses (listed, or the
\* trigger's own) and for every signature string, and for nothing else; each
\* id is that of a trigger, an event type or a rule the service holds under
\* that name or signature.
C36_SummaryIndexesDocument ==
    \A r \in Runs : (ValidText /\ Succeeded(r)) =>
        LET sm == result[r].summary
        IN  /\ DOMAIN sm.triggers = {Triggers[k].name : k \in DOMAIN Triggers}
            /\ DOMAIN sm.event_types = Range(AllEtNames)
            /\ DOMAIN sm.rules = {SigOf(k).s : k \in DOMAIN Triggers}
            /\ \A n \in DOMAIN sm.triggers :
                   /\ sm.triggers[n] \in DOMAIN svc.triggers
                   /\ svc.triggers[sm.triggers[n]].name = n
            /\ \A n \in DOMAIN sm.event_types :
                   /\ sm.event_types[n] \in DOMAIN svc.event_types
                   /\ svc.event_types[sm.event_types[n]] = n
            /\ \A s \in DOMAIN sm.rules :
                   /\ sm.rules[s] \in DOMAIN svc.rules
                   /\ \E k \in DOMAIN Triggers :
                          /\ SigOf(k).s = s
                          /\ svc.rules[sm.rules[s]].target = SigOf(k).sig

\* the summary of the document with two triggers, two event types (one of
\* them listed three times) and two rules
C36_Witness ==
    /\ text = DocLinks /\ Succeeded(1)
    /\ DOMAIN result[1].summary.triggers = {"A", "B"}
    /\ DOMAIN result[1].summary.event_types = {"e1", "e2"}
    /\ Cardinality(DOMAIN result[1].summary.rules) = 2
    /\ Len(svc.rules) = 2 /\ Len(svc.event_types) = 2 /\ Len(svc.triggers) = 2

\* C37: when the first run, on the empty service, has returned Ok, every
\* trigger of the service is bound to exactly one rule, the rule of its
\* signature; the EventType-Trigger relations are the (event type, trigger)
\* pairs of the document; the chain relations are the depends_on and legacy
\* edges whose two triggers the document holds; every pair is stored once,
\* and the service holds no entity the document does not name.
C37_ServiceIsDocumentGraph ==
    (ValidText /\ Succeeded(1) /\ frame[2].pc = "idle") =>
        /\ svc.event_types = RefEventTypes
        /\ svc.triggers = RefTriggers
        /\ Len(svc.rules) = Cardinality({SigOf(k).sig : k \in DOMAIN Triggers})
        /\ \A k \in DOMAIN Triggers :
               LET t == RefTrigId(Triggers[k].name)
                   bound == {i \in DOMAIN svc.trig_rule : svc.trig_rule[i][1] = t}
               IN  /\ Cardinality(bound) = 1
                   /\ \A i \in bound : svc.rules[svc.trig_rule[i][2]].target = SigOf(k).sig
        /\ EtTrig(svc) = RefEtTrig /\ Len(svc.et_trig) = Cardinality(RefEtTrig)
        /\ TrigTrig(svc) = RefTrigTrig /\ Len(svc.trig_trig) = Cardinality(RefTrigTrig)

---------------------------------------------------------------------------
(* The lookup of a trigger *)

TriggerNames(s) == {s.triggers[i].name : i \in DOMAIN s.triggers}

\* C38: a trigger lookup answered 404 (the service holds no trigger of the
\* name) is followed by the create call with the name and the depends_on of
\* the trigger; a lookup that failed otherwise ends the run with the error
\* of the lookup, no create call made; and a trigger is created only after
\* a lookup answered 404.
C38_OnlyNotFoundCreates ==
    [][ \A r \in Runs : calls'[r] # calls[r] =>
          /\ LastCall(r).op = "get_trigger_by_name" =>
               IF ~LastCall(r).ok
               THEN /\ frame'[r].pc = "done"
                    /\ result'[r] = RunErr(HTTPStatusError("get_trigger_by_name", ServerError))
               ELSE IF LastCall(r).args[1] \notin TriggerNames(svc)
                    THEN frame'[r].pc = "create_trigger"
                    ELSE frame'[r].pc \notin {"create_trigger", "done"}
          /\ LastCall(r).op = "create_trigger" =>
               /\ calls[r] # <<>>
               /\ calls[r][Len(calls[r])].op = "get_trigger_by_name"
               /\ calls[r][Len(calls[r])].ok
               /\ LastCall(r).args[1] = calls[r][Len(calls[r])].args[1]
               /\ LastCall(r).args[1] \notin TriggerNames(svc)
               /\ \E k \in DOMAIN Triggers :
                      LastCall(r).args = <<Triggers[k].name, Triggers[k].depends_on>>
               /\ LastCall(r).ok =>
                      svc'.triggers = Append(svc.triggers,
                                             [name |-> LastCall(r).args[1],
                                              depends_on |-> LastCall(r).args[2]])
      ]_vars

\* the lookup of the first run failed and the run made no trigger; the
\* lookup of the second was answered 404 and the run created the trigger
C38_Witness ==
    /\ text = DocScenario
    /\ Failed(1)
    /\ result[1].error = HTTPStatusError("get_trigger_by_name", ServerError)
    /\ CallsOf(1, "create_trigger") = {}
    /\ Succeeded(2)
    /\ \E i \in CallsOf(2, "create_trigger") :
           /\ calls[2][i].args = <<"t1", None>>
           /\ calls[2][i - 1].op = "get_trigger_by_name"
    /\ svc.triggers = <<[name |-> "t1", depends_on |-> None]>>

---------------------------------------------------------------------------
(* Termination: every call that is issued is answered, so a step that is    *)
(* enabled is taken.                                                       *)

\* the documents of the runs whose end is checked: one trigger; two triggers
\* with a depends_on and legacy links, dangling or not; an invalid document
LiveDocs == {DocScenario, DocDangling, Doc(<<>>, <<>>)}

InitLive ==
    /\ text \in LiveDocs
    /\ svc = EmptySvc
    /\ failures = 0
    /\ frame = [r \in Runs |-> IdleFrame]
    /\ result = [r \in Runs |-> NoResult]
    /\ calls = [r \in Runs |-> <<>>]
    /\ svc_at_start = [r \in Runs |-> EmptySvc]
    /\ arg = <<>>
    /\ ret = <<>>

SpecLive == InitLive /\ [][Next]_vars /\ WF_vars(Next)

\* the calls a run of the document can need: a find and a create for every
\* event-type name, rule and trigger, and a list and a link for every
\* Trigger-Rule bind, EventType-Trigger bind and declared chain edge
CallBound == 2 * (2 * Len(AllEtNames) + 3 * Len(Triggers) + Declared)

\* C39: every run ends, with Ok or with Err, and it has then issued no more
\* calls than one find and one create for each entity it resolves and one
\* list and one link for each binding.
C39_RunsTerminate ==
    <>(\A r \in Runs : /\ Done(r)
                        /\ result[r].tag \in {"Ok", "Err"}
                        /\ Len(calls[r]) <= CallBound)

\* a run that needed every call: ten calls for one trigger with one event type
C39_Witness ==
    /\ text = DocScenario /\ Succeeded(1) /\ NoCallFailed(1)
    /\ Len(calls[1]) = 10 /\ CallBound = 10
    /\ Succeeded(2) /\ Len(calls[2]) = 5

=============================================================================
